---- MODULE Spec2Model ----
(***************************************************************************)
(* TypeRight: the page monitor (content.js), the coordinator               *)
(* (background.js) and the viewer session (sidepanel.js) as one state      *)
(* machine.  Every handler of the three scripts is one action; the         *)
(* asynchronous hops between them (runtime.sendMessage and its reply,      *)
(* tabs.sendMessage, the side panel port in both directions, the model     *)
(* call) are FIFO queues.                                                  *)
(***************************************************************************)
EXTENDS Integers, Sequences, FiniteSets, TLC

(***************************************************************************)
(* Bounds of the exploration.                                              *)
(***************************************************************************)
MaxTime == 1
MaxChecks == 2
MaxHistory == 2
MaxQueue == 1
MaxPortQueue == 2
MaxTimers == 2
MaxLines == 2
MaxParses == 2

(***************************************************************************)
(* Program constants.                                                      *)
(***************************************************************************)
minTextLength == 25
bgMinTextLength == 25
HistoryLimit == 50
DisplayLimit == 10

Tabs == {1, 2}
Fields == {"f1", "f2"}
Viewers == {"v1", "v2"}

\* JavaScript's null / undefined for a tab id, a field id and a timestamp
NoTab == 0
NoElement == ""
NoTimestamp == -1

(***************************************************************************)
(* Texts.  A text is a sequence of one-character strings.                  *)
(***************************************************************************)
Rep(c, n) == [i \in 1..n |-> c]

\* 24 characters between two blanks, 25 characters after a blank, 26 characters
ShortText == Rep("a", 24)
PaddedShort == <<" ">> \o ShortText \o <<" ">>
LongA == Rep("a", 25)
PaddedLongA == <<" ">> \o LongA
LongB == Rep("b", 26)

Texts == {PaddedShort, PaddedLongA, LongB}

IsSpace(c) == c \in {" ", "\n"}

RECURSIVE TrimStart(_)
TrimStart(s) == IF s # <<>> /\ IsSpace(Head(s)) THEN TrimStart(Tail(s)) ELSE s

RECURSIVE TrimEnd(_)
TrimEnd(s) ==
    IF s # <<>> /\ IsSpace(s[Len(s)]) THEN TrimEnd(SubSeq(s, 1, Len(s) - 1)) ELSE s

trim(s) == TrimEnd(TrimStart(s))

(***************************************************************************)
(* JavaScript Map as a function with a changing domain.                    *)
(***************************************************************************)
EmptyMap == [k \in {} |-> 0]
MapSet(m, k, v) == [x \in DOMAIN m \cup {k} |-> IF x = k THEN v ELSE m[x]]
MapDelete(m, k) == [x \in DOMAIN m \ {k} |-> m[x]]
MapHas(m, k) == k \in DOMAIN m
MapValues(m) == {m[k] : k \in DOMAIN m}

Take(s, n) == SubSeq(s, 1, IF Len(s) < n THEN Len(s) ELSE n)

VARIABLES
    \* page monitor, one per tab (content.js state)
    text,             \* the editable fields' current content
    sidePanelOpen,    \* state.sidePanelOpen
    typingTimers,     \* state.typingTimers: field id -> timer handle
    liveTimers,       \* the host's pending setTimeout callbacks
    lastCheckedText,  \* state.lastCheckedText: field id -> text
    contextValid,     \* chrome.runtime.id is defined
    reqQ,             \* runtime.sendMessage(checkGrammar) on its way
    respQ,            \* the replies on their way back to checkGrammar
    tabQ,             \* tabs.sendMessage on its way to handleMessage
    \* coordinator (background.js state)
    checkHistory,     \* state.checkHistory
    sidePanelPorts,   \* state.sidePanelPorts: port key -> {port, tabId}
    calls,            \* handleGrammarCheck suspended in checkGrammarWithAI
    delivering,       \* handleGrammarCheck suspended in tabs.sendMessage
    now,              \* Date.now()
    \* viewer session, one per side panel (sidepanel.js state)
    suggestions,      \* state.suggestions
    currentTabId,     \* state.currentTabId
    portIn,           \* port messages on their way to handlePortMessage
    portOut,          \* port messages on their way to the coordinator
    removing,         \* dismissed cards waiting for their 300 ms timeout
    panel,            \* the side panel document is loaded
    port,             \* state.port is not null
    reconnectTimer,   \* setTimeout(connectToBackground, 1000) is pending
    \* response parser (parseAIResponse in background.js)
    modelReply,       \* data.message.content, the reply handed to the parser
    original,         \* the text the reply is about
    result,           \* what parseAIResponse has returned for them
    \* history variables, read by the properties only
    acceptedText,     \* texts accepted for a field since its text last changed
    reattached        \* "reattached" once a detach that cancelled a timer was
                      \* followed by an attach

pageVars == <<text, sidePanelOpen, typingTimers, liveTimers, lastCheckedText,
              contextValid>>
chanVars == <<reqQ, respQ, tabQ>>
bgVars == <<checkHistory, sidePanelPorts, calls, delivering, now>>
viewerVars == <<suggestions, currentTabId, portIn, portOut, removing>>
connVars == <<panel, port, reconnectTimer>>
parseVars == <<modelReply, original, result>>
histVars == <<acceptedText, reattached>>
vars == <<pageVars, chanVars, bgVars, viewerVars, connVars, parseVars,
          histVars>>

(***************************************************************************)
(* Page monitor.                                                           *)
(***************************************************************************)
\* clearTimeout(handle): the callback with that handle will not run
clearTimeout(live, handle) == {tm \in live : tm.id # handle}

\* setTimeout returns a handle no pending callback and no map entry carries
FreshTimer(t) ==
    LET used == {tm.id : tm \in liveTimers[t]} \cup MapValues(typingTimers[t])
    IN  CHOOSE n \in 1..(Cardinality(used) + 1) :
            n \notin used /\ \A k \in 1..(n - 1) : k \in used

\* the number of checks between a page's send and the end of
\* handleGrammarCheck
ChecksInFlight ==
    LET RECURSIVE Sum(_)
        Sum(S) == IF S = {} THEN 0
                  ELSE LET x == CHOOSE y \in S : TRUE
                       IN  Len(reqQ[x]) + Sum(S \ {x})
    IN  Sum(Tabs) + Len(calls) + Len(delivering)

\* getTextContent(element) without its trim()
textContentUntrimmed(raw) == raw

\* getTextContent(element).trim()
textContent(raw) == trim(raw)

\* scheduleGrammarCheck without its test of state.sidePanelOpen
scheduleGrammarCheckAlways(t, f, raw, immediate) ==
    LET txt == textContent(raw)
        has == MapHas(typingTimers[t], f)
        cleared == IF has THEN clearTimeout(liveTimers[t], typingTimers[t][f])
                          ELSE liveTimers[t]
    IN  IF Len(txt) < minTextLength
        THEN /\ liveTimers' = [liveTimers EXCEPT ![t] = cleared]
             /\ typingTimers' = [typingTimers EXCEPT ![t] = MapDelete(@, f)]
        ELSE IF MapHas(lastCheckedText[t], f) /\ lastCheckedText[t][f] = txt
        THEN UNCHANGED <<typingTimers, liveTimers>>
        ELSE LET timer == [id |-> FreshTimer(t), el |-> f, stale |-> FALSE]
             IN  /\ Cardinality(cleared) < MaxTimers
                 /\ liveTimers' = [liveTimers EXCEPT ![t] = cleared \cup {timer}]
                 /\ typingTimers' =
                        [typingTimers EXCEPT ![t] = MapSet(@, f, timer.id)]

scheduleGrammarCheck(t, f, raw, immediate) ==
    LET txt == textContent(raw)
        has == MapHas(typingTimers[t], f)
        cleared == IF has THEN clearTimeout(liveTimers[t], typingTimers[t][f])
                          ELSE liveTimers[t]
    IN  IF ~sidePanelOpen[t]
        THEN UNCHANGED <<typingTimers, liveTimers>>
        ELSE IF Len(txt) < minTextLength
        THEN /\ liveTimers' = [liveTimers EXCEPT ![t] = cleared]
             /\ typingTimers' = [typingTimers EXCEPT ![t] = MapDelete(@, f)]
        ELSE IF MapHas(lastCheckedText[t], f) /\ lastCheckedText[t][f] = txt
        THEN UNCHANGED <<typingTimers, liveTimers>>
        ELSE LET timer == [id |-> FreshTimer(t), el |-> f, stale |-> FALSE]
             IN  /\ Cardinality(cleared) < MaxTimers
                 /\ liveTimers' = [liveTimers EXCEPT ![t] = cleared \cup {timer}]
                 /\ typingTimers' =
                        [typingTimers EXCEPT ![t] = MapSet(@, f, timer.id)]

handleInput(t, f, newText) ==
    /\ text' = [text EXCEPT ![t][f] = newText]
    /\ acceptedText' = IF newText = text[t][f] THEN acceptedText
                       ELSE [acceptedText EXCEPT ![t][f] = {}]
    /\ scheduleGrammarCheck(t, f, newText, FALSE)
    /\ UNCHANGED <<sidePanelOpen, lastCheckedText, contextValid, chanVars,
                   bgVars, viewerVars, reattached>>
    /\ UNCHANGED <<connVars, parseVars>>

handleFocus(t, f) ==
    /\ scheduleGrammarCheck(t, f, text[t][f], TRUE)
    /\ UNCHANGED <<text, sidePanelOpen, lastCheckedText, contextValid,
                   chanVars, bgVars, viewerVars, histVars>>
    /\ UNCHANGED <<connVars, parseVars>>

handleClick(t, f) ==
    /\ scheduleGrammarCheck(t, f, text[t][f], TRUE)
    /\ UNCHANGED <<text, sidePanelOpen, lastCheckedText, contextValid,
                   chanVars, bgVars, viewerVars, histVars>>
    /\ UNCHANGED <<connVars, parseVars>>

\* the guards of checkGrammar without the one on the last-checked text
checkGrammarSkipsNoLastText(t, f) ==
    \/ ~sidePanelOpen[t]
    \/ Len(textContent(text[t][f])) < minTextLength

\* the guards of checkGrammar between the timer bookkeeping and the send
checkGrammarSkips(t, f) ==
    LET txt == textContent(text[t][f])
    IN  \/ ~sidePanelOpen[t]
        \/ Len(txt) < minTextLength
        \/ (MapHas(lastCheckedText[t], f) /\ lastCheckedText[t][f] = txt)

\* a timer's callback: checkGrammar(element) up to its first await
checkGrammar(t, tm, throws) ==
    LET f == tm.el
        fired == liveTimers[t] \ {tm}
        live1 == IF MapHas(typingTimers[t], f)
                 THEN clearTimeout(fired, typingTimers[t][f]) ELSE fired
        map1 == MapDelete(typingTimers[t], f)
    IN  IF checkGrammarSkips(t, f)
        THEN /\ liveTimers' = [liveTimers EXCEPT ![t] = live1]
             /\ typingTimers' = [typingTimers EXCEPT ![t] = map1]
             /\ UNCHANGED <<lastCheckedText, reqQ>>
        ELSE IF contextValid[t]
        THEN /\ Len(reqQ[t]) < MaxQueue
             /\ ChecksInFlight < MaxChecks
             /\ liveTimers' = [liveTimers EXCEPT ![t] = live1]
             /\ typingTimers' = [typingTimers EXCEPT ![t] = map1]
             /\ reqQ' = [reqQ EXCEPT ![t] =
                    Append(@, [elementId |-> f, text |-> textContent(text[t][f]),
                               stale |-> tm.stale])]
             /\ UNCHANGED lastCheckedText
        ELSE IF throws
        THEN /\ liveTimers' = [liveTimers EXCEPT ![t] = live1]
             /\ typingTimers' = [typingTimers EXCEPT ![t] = EmptyMap]
             /\ lastCheckedText' = [lastCheckedText EXCEPT ![t] = EmptyMap]
             /\ UNCHANGED reqQ
        ELSE /\ liveTimers' = [liveTimers EXCEPT ![t] = live1]
             /\ typingTimers' = [typingTimers EXCEPT ![t] = map1]
             /\ UNCHANGED <<lastCheckedText, reqQ>>

TimerFires(t) ==
    /\ \E tm \in liveTimers[t] : \E throws \in BOOLEAN :
          /\ (throws => ~contextValid[t] /\ ~checkGrammarSkips(t, tm.el))
          /\ checkGrammar(t, tm, throws)
    /\ UNCHANGED <<text, sidePanelOpen, contextValid, respQ,
                   tabQ, bgVars, viewerVars, histVars>>
    /\ UNCHANGED <<connVars, parseVars>>

\* checkGrammar after its await, recording the text whatever the reply says
checkGrammarResumesAlways(t) ==
    /\ respQ[t] # <<>>
    /\ Head(respQ[t]).kind = "reply"
    /\ LET r == Head(respQ[t])
       IN  /\ respQ' = [respQ EXCEPT ![t] = Tail(@)]
           /\ lastCheckedText' =
                 [lastCheckedText EXCEPT ![t] = MapSet(@, r.elementId, r.text)]
    /\ UNCHANGED <<text, sidePanelOpen, typingTimers, liveTimers,
                   contextValid, reqQ, tabQ, bgVars,
                   viewerVars, histVars>>
    /\ UNCHANGED <<connVars, parseVars>>

\* checkGrammar after its await: the reply of the coordinator
checkGrammarResumes(t) ==
    /\ respQ[t] # <<>>
    /\ Head(respQ[t]).kind = "reply"
    /\ LET r == Head(respQ[t])
       IN  /\ respQ' = [respQ EXCEPT ![t] = Tail(@)]
           /\ lastCheckedText' =
                 IF r.success
                 THEN [lastCheckedText EXCEPT
                          ![t] = MapSet(@, r.elementId, r.text)]
                 ELSE lastCheckedText
    /\ UNCHANGED <<text, sidePanelOpen, typingTimers, liveTimers,
                   contextValid, reqQ, tabQ, bgVars,
                   viewerVars, histVars>>
    /\ UNCHANGED <<connVars, parseVars>>

\* checkGrammar after its await, when the send was rejected: the catch block
checkGrammarCatches(t) ==
    /\ respQ[t] # <<>>
    /\ Head(respQ[t]).kind = "rejected"
    /\ respQ' = [respQ EXCEPT ![t] = Tail(@)]
    /\ \E invalidated \in {FALSE, ~contextValid[t]} :
          IF invalidated
          THEN /\ typingTimers' = [typingTimers EXCEPT ![t] = EmptyMap]
               /\ lastCheckedText' = [lastCheckedText EXCEPT ![t] = EmptyMap]
          ELSE UNCHANGED <<typingTimers, lastCheckedText>>
    /\ UNCHANGED <<text, sidePanelOpen, liveTimers, contextValid, reqQ, tabQ, bgVars, viewerVars, histVars>>
    /\ UNCHANGED <<connVars, parseVars>>

\* the pending callbacks after typingTimers.clear() alone
timersAfterClearOnly(t) == liveTimers[t]

\* the pending callbacks after typingTimers.forEach(clearTimeout)
timersAfterClearAll(t) ==
    {tm \in liveTimers[t] : tm.id \notin MapValues(typingTimers[t])}

updateSidePanelStatus(t, isOpen) ==
    IF sidePanelOpen[t] = isOpen
    THEN UNCHANGED <<sidePanelOpen, typingTimers, liveTimers, lastCheckedText,
                     reattached>>
    ELSE /\ sidePanelOpen' = [sidePanelOpen EXCEPT ![t] = isOpen]
         /\ IF ~isOpen
            THEN /\ liveTimers' = [liveTimers EXCEPT ![t] =
                     {[tm EXCEPT !.stale = TRUE] : tm \in timersAfterClearAll(t)}]
                 /\ typingTimers' = [typingTimers EXCEPT ![t] = EmptyMap]
                 /\ lastCheckedText' = [lastCheckedText EXCEPT ![t] = EmptyMap]
                 /\ reattached' = [reattached EXCEPT ![t] =
                        IF typingTimers[t] # EmptyMap THEN "cancelled"
                        ELSE "detached"]
            ELSE /\ reattached' = [reattached EXCEPT ![t] =
                        IF @ = "cancelled" THEN "reattached" ELSE "attached"]
                 /\ UNCHANGED <<typingTimers, liveTimers, lastCheckedText>>

handleMessage(t) ==
    /\ tabQ[t] # <<>>
    /\ tabQ' = [tabQ EXCEPT ![t] = Tail(@)]
    /\ LET m == Head(tabQ[t])
       IN  IF contextValid[t] /\ m.action = "sidePanelStatus"
           THEN updateSidePanelStatus(t, m.isOpen)
           ELSE UNCHANGED <<sidePanelOpen, typingTimers, liveTimers,
                            lastCheckedText, reattached>>
    /\ UNCHANGED <<text, contextValid, reqQ, respQ, bgVars,
                   viewerVars, acceptedText>>
    /\ UNCHANGED <<connVars, parseVars>>

(***************************************************************************)
(* Coordinator.                                                            *)
(***************************************************************************)
\* hasSidePanelConnection without the comparison of tab ids
hasAnySidePanelConnection(tabId) ==
    /\ tabId # NoTab
    /\ DOMAIN sidePanelPorts # {}

hasSidePanelConnection(tabId) ==
    /\ tabId # NoTab
    /\ \E k \in DOMAIN sidePanelPorts : sidePanelPorts[k].tabId = tabId

\* the ports a broadcast restricted to bound and matching ports would post to
broadcastTargetsBoundOnly(targetTabId) ==
    {k \in DOMAIN sidePanelPorts :
        \/ sidePanelPorts[k].tabId = targetTabId
        \/ sidePanelPorts[k].tabId = NoTab}

\* the ports a broadcast without a tab would post to: every port
broadcastTargetsEveryPort(targetTabId) == DOMAIN sidePanelPorts

\* the ports broadcastToSidePanels(targetTabId, ...) posts to
broadcastTargets(targetTabId) ==
    {k \in DOMAIN sidePanelPorts :
        \/ targetTabId = NoTab
        \/ sidePanelPorts[k].tabId = targetTabId
        \/ sidePanelPorts[k].tabId = NoTab}

broadcastToSidePanels(q, targetTabId, message) ==
    [v \in Viewers |-> IF v \in broadcastTargets(targetTabId)
                       THEN Append(q[v], message) ELSE q[v]]

QueuesFit(q) == \A v \in Viewers : Len(q[v]) <= MaxPortQueue

\* state.checkHistory.unshift(historyEntry) without the cut
historyInsertNoCut(h, entry) == <<entry>> \o h

\* state.checkHistory.push(historyEntry), then the cut to 50
historyInsertAtEnd(h, entry) == Take(h \o <<entry>>, HistoryLimit)

\* state.checkHistory = [historyEntry]: the record replaces the history
historyInsertOverwrite(h, entry) == <<entry>>

\* state.checkHistory.unshift(historyEntry), then the cut to 50
historyInsert(h, entry) == Take(<<entry>> \o h, HistoryLimit)

\* the record of the no-issues branch, built whatever the parser returned
historyEntryNoIssues(c, resultHasIssues) ==
    [timestamp |-> now, originalText |-> c.normalizedText,
     elementId |-> c.elementId, tabId |-> c.tabId,
     hasIssues |-> FALSE, noIssues |-> TRUE,
     resultHasIssues |-> resultHasIssues]

\* the record handleGrammarCheck builds in either branch
historyEntry(c, resultHasIssues) ==
    [timestamp |-> now, originalText |-> c.normalizedText,
     elementId |-> c.elementId, tabId |-> c.tabId,
     hasIssues |-> resultHasIssues, noIssues |-> ~resultHasIssues,
     resultHasIssues |-> resultHasIssues]

\* runtime.onMessage, action checkGrammar, with handleGrammarCheck up to its
\* await of checkGrammarWithAI
onCheckGrammar(t) ==
    /\ reqQ[t] # <<>>
    /\ LET m == Head(reqQ[t])
           accepted == hasSidePanelConnection(t)
           normalizedText == trim(m.text)
           starts == accepted /\ Len(normalizedText) >= bgMinTextLength
       IN  /\ Len(respQ[t]) < MaxQueue
           /\ reqQ' = [reqQ EXCEPT ![t] = Tail(@)]
           /\ respQ' = [respQ EXCEPT ![t] =
                  Append(@, [kind |-> "reply", success |-> accepted,
                             panelOpen |-> accepted,
                             elementId |-> m.elementId, text |-> m.text])]
           /\ calls' = IF starts
                       THEN Append(calls, [tabId |-> t,
                                           elementId |-> m.elementId,
                                           text |-> m.text,
                                           normalizedText |-> normalizedText])
                       ELSE calls
           /\ portIn' = IF starts
                        THEN broadcastToSidePanels(portIn, t,
                                 [action |-> "statusUpdate", type |-> "working"])
                        ELSE portIn
           /\ QueuesFit(portIn')
           /\ acceptedText' =
                  IF accepted
                  THEN [acceptedText EXCEPT ![t][m.elementId] = @ \cup {m.text}]
                  ELSE acceptedText
    /\ UNCHANGED <<pageVars, tabQ, checkHistory, sidePanelPorts, delivering,
                   now, suggestions, currentTabId, portOut, removing,
                   reattached>>
    /\ UNCHANGED <<connVars, parseVars>>

RemoveAt(s, i) == SubSeq(s, 1, i - 1) \o SubSeq(s, i + 1, Len(s))

\* a completion that relies on the viewer found when the request was accepted
modelCallSucceedsAsAccepted(i, resultHasIssues) ==
    /\ i \in 1..Len(calls)
    /\ LET c == calls[i]
           panelConnected == TRUE
           entry == historyEntry(c, resultHasIssues)
       IN  /\ calls' = RemoveAt(calls, i)
           /\ checkHistory' = historyInsert(checkHistory, entry)
           /\ IF resultHasIssues
              THEN /\ Len(tabQ[c.tabId]) < MaxQueue
                   /\ tabQ' = [tabQ EXCEPT ![c.tabId] =
                          Append(@, [action |-> "showSuggestion",
                                     elementId |-> c.elementId,
                                     isOpen |-> FALSE])]
                   /\ delivering' =
                          Append(delivering, [entry |-> entry,
                                              panelConnected |-> panelConnected])
                   /\ UNCHANGED portIn
              ELSE /\ portIn' =
                          IF panelConnected
                          THEN broadcastToSidePanels(portIn, c.tabId,
                                   [action |-> "displaySuggestion", data |-> entry])
                          ELSE portIn
                   /\ QueuesFit(portIn')
                   /\ UNCHANGED <<tabQ, delivering>>
    /\ UNCHANGED <<pageVars, reqQ, respQ, sidePanelPorts, now, suggestions,
                   currentTabId, portOut, removing, histVars>>
    /\ UNCHANGED <<connVars, parseVars>>

\* handleGrammarCheck resumes with the parsed result of checkGrammarWithAI
modelCallSucceeds(i, resultHasIssues) ==
    /\ i \in 1..Len(calls)
    /\ LET c == calls[i]
           panelConnected == hasSidePanelConnection(c.tabId)
           entry == historyEntry(c, resultHasIssues)
       IN  /\ calls' = RemoveAt(calls, i)
           /\ checkHistory' = historyInsert(checkHistory, entry)
           /\ IF resultHasIssues
              THEN /\ Len(tabQ[c.tabId]) < MaxQueue
                   /\ tabQ' = [tabQ EXCEPT ![c.tabId] =
                          Append(@, [action |-> "showSuggestion",
                                     elementId |-> c.elementId,
                                     isOpen |-> FALSE])]
                   /\ delivering' =
                          Append(delivering, [entry |-> entry,
                                              panelConnected |-> panelConnected])
                   /\ UNCHANGED portIn
              ELSE /\ portIn' =
                          IF panelConnected
                          THEN broadcastToSidePanels(portIn, c.tabId,
                                   [action |-> "displaySuggestion", data |-> entry])
                          ELSE portIn
                   /\ QueuesFit(portIn')
                   /\ UNCHANGED <<tabQ, delivering>>
    /\ UNCHANGED <<pageVars, reqQ, respQ, sidePanelPorts, now, suggestions,
                   currentTabId, portOut, removing, histVars>>
    /\ UNCHANGED <<connVars, parseVars>>

\* handleGrammarCheck resumes after its await of tabs.sendMessage(showSuggestion)
suggestionSent(i) ==
    /\ i \in 1..Len(delivering)
    /\ LET d == delivering[i]
       IN  /\ delivering' = RemoveAt(delivering, i)
           /\ portIn' =
                  IF d.panelConnected
                  THEN broadcastToSidePanels(portIn, d.entry.tabId,
                           [action |-> "displaySuggestion", data |-> d.entry])
                  ELSE portIn
           /\ QueuesFit(portIn')
    /\ UNCHANGED <<pageVars, chanVars, checkHistory, sidePanelPorts, calls,
                   now, suggestions, currentTabId, portOut, removing, histVars>>
    /\ UNCHANGED <<connVars, parseVars>>

\* the errors the try block of checkGrammarWithAI can end with: the abort of
\* the request timeout, a failed fetch, a status that is not ok, a body that
\* response.json() cannot parse, a body without message.content
Failures ==
    {[name |-> "AbortError", message |-> "The user aborted a request.",
      includesFetch |-> FALSE],
     [name |-> "TypeError", message |-> "Failed to fetch",
      includesFetch |-> TRUE],
     [name |-> "Error", message |-> "AI service returned status 500",
      includesFetch |-> FALSE],
     [name |-> "SyntaxError",
      message |-> "Unexpected token < in JSON at position 0",
      includesFetch |-> FALSE],
     [name |-> "Error", message |-> "Invalid response from Ollama",
      includesFetch |-> FALSE]}

\* what the fetch of one call can settle with: a rejection for a transport
\* failure, or a response with its status and its body
Responses ==
    {[settled |-> "rejected", ok |-> FALSE, json |-> FALSE, content |-> FALSE]}
    \cup
    {[settled |-> "resolved", ok |-> ok, json |-> json, content |-> c] :
        ok \in BOOLEAN, json \in BOOLEAN, c \in BOOLEAN}

NoError == [name |-> "", message |-> "", includesFetch |-> FALSE]

\* the error thrown in the try block of checkGrammarWithAI, or NoError;
\* timedOut: the 30000 ms timer runs controller.abort() while the fetch is
\* pending.  Once the fetch has settled the timer is cleared or aborts
\* nothing.
thrown(timedOut, r) ==
    LET named(message) == CHOOSE error \in Failures : error.message = message
    IN  IF timedOut THEN named("The user aborted a request.")
        ELSE IF r.settled = "rejected" THEN named("Failed to fetch")
        ELSE IF ~r.ok THEN named("AI service returned status 500")
        ELSE IF ~r.json
        THEN named("Unexpected token < in JSON at position 0")
        ELSE IF ~r.content THEN named("Invalid response from Ollama")
        ELSE NoError

\* a catch block that passes every error on as it is
thrownMessageRaw(error) == error.message

\* the message of the error the catch block of checkGrammarWithAI throws
thrownMessage(error) ==
    IF error.name = "AbortError"
    THEN "Request timeout - AI service took too long to respond"
    ELSE IF error.includesFetch
    THEN "Cannot connect to AI service. Make sure Ollama is running (ollama serve)"
    ELSE error.message

\* the service answers with a status that is not ok
StatusFailure ==
    CHOOSE error \in Failures : error.message = "AI service returned status 500"

\* the catch block as if the request were made again: the error is shown and
\* the call stays in flight
modelCallFailsRetrying(i, failure) ==
    /\ i \in 1..Len(calls)
    /\ calls' = calls
    /\ portIn' = broadcastToSidePanels(portIn, calls[i].tabId,
                                       [action |-> "displayError",
                                        error |-> thrownMessage(failure)])
    /\ QueuesFit(portIn')
    /\ UNCHANGED <<pageVars, chanVars, checkHistory, sidePanelPorts,
                   delivering, now, suggestions, currentTabId, portOut,
                   removing, histVars>>
    /\ UNCHANGED <<connVars, parseVars>>

\* checkGrammarWithAI throws: the catch block of handleGrammarCheck
modelCallFails(i, failure) ==
    /\ i \in 1..Len(calls)
    /\ calls' = RemoveAt(calls, i)
    /\ portIn' = broadcastToSidePanels(portIn, calls[i].tabId,
                                       [action |-> "displayError",
                                        error |-> thrownMessage(failure)])
    /\ QueuesFit(portIn')
    /\ UNCHANGED <<pageVars, chanVars, checkHistory, sidePanelPorts,
                   delivering, now, suggestions, currentTabId, portOut,
                   removing, histVars>>
    /\ UNCHANGED <<connVars, parseVars>>

\* checkGrammarWithAI settles, with a result or with an error
modelCallEnds(i, timedOut, r, resultHasIssues) ==
    IF thrown(timedOut, r) = NoError
    THEN modelCallSucceeds(i, resultHasIssues)
    ELSE modelCallFails(i, thrown(timedOut, r))

\* Date.now() advances
Tick ==
    /\ now <= MaxTime
    /\ now' = now + 1
    /\ UNCHANGED <<pageVars, chanVars, checkHistory, sidePanelPorts, calls,
                   delivering, viewerVars, histVars>>
    /\ UNCHANGED <<connVars, parseVars>>

\* port.onMessage, the lines every action shares: the port is bound to the
\* tab id the message names
rebound(k, m) ==
    IF m.tabId # NoTab
    THEN MapSet(sidePanelPorts, k, [tabId |-> m.tabId])
    ELSE sidePanelPorts

onRegisterTab(k) ==
    /\ k \in DOMAIN sidePanelPorts
    /\ portOut[k] # <<>>
    /\ Head(portOut[k]).action = "registerTab"
    /\ LET m == Head(portOut[k])
       IN  /\ portOut' = [portOut EXCEPT ![k] = Tail(@)]
           /\ sidePanelPorts' = rebound(k, m)
           /\ IF m.tabId # NoTab
              THEN /\ Len(tabQ[m.tabId]) < MaxQueue
                   /\ tabQ' = [tabQ EXCEPT ![m.tabId] =
                          Append(@, [action |-> "sidePanelStatus",
                                     elementId |-> NoElement,
                                     isOpen |-> TRUE])]
              ELSE UNCHANGED tabQ
    /\ UNCHANGED <<pageVars, reqQ, respQ, checkHistory, calls, delivering,
                   now, suggestions, currentTabId, portIn, removing, histVars>>
    /\ UNCHANGED <<connVars, parseVars>>

\* a reply that holds the whole history whatever the message names
tabFilteredHistoryWhole(m) == checkHistory

\* the history the requestHistory case replies with
tabFilteredHistory(m) ==
    IF m.tabId # NoTab
    THEN SelectSeq(checkHistory, LAMBDA entry : entry.tabId = m.tabId)
    ELSE checkHistory

onRequestHistory(k) ==
    /\ k \in DOMAIN sidePanelPorts
    /\ portOut[k] # <<>>
    /\ Head(portOut[k]).action = "requestHistory"
    /\ LET m == Head(portOut[k])
       IN  /\ portOut' = [portOut EXCEPT ![k] = Tail(@)]
           /\ sidePanelPorts' = rebound(k, m)
           /\ Len(portIn[k]) < MaxPortQueue
           /\ portIn' = [portIn EXCEPT ![k] =
                  Append(@, [action |-> "historyUpdate",
                             history |-> tabFilteredHistory(m)])]
    /\ UNCHANGED <<pageVars, chanVars, checkHistory, calls, delivering, now,
                   suggestions, currentTabId, removing, histVars>>
    /\ UNCHANGED <<connVars, parseVars>>

\* a filter that compares the timestamps only
dismissMatchesTimestamp(m, entry) == entry.timestamp = m.timestamp

\* the filter of the dismissEntry case: TRUE for the entries it removes
dismissMatches(m, entry) ==
    LET sameTimestamp == entry.timestamp = m.timestamp
        sameElement == IF m.elementId # NoElement
                       THEN entry.elementId = m.elementId ELSE TRUE
    IN  sameTimestamp /\ sameElement

dismissEntry(h, m) == SelectSeq(h, LAMBDA entry : ~dismissMatches(m, entry))

onDismissEntry(k) ==
    /\ k \in DOMAIN sidePanelPorts
    /\ portOut[k] # <<>>
    /\ Head(portOut[k]).action = "dismissEntry"
    /\ LET m == Head(portOut[k])
       IN  /\ portOut' = [portOut EXCEPT ![k] = Tail(@)]
           /\ sidePanelPorts' = rebound(k, m)
           /\ IF m.timestamp = NoTimestamp
              THEN UNCHANGED <<checkHistory, portIn>>
              ELSE /\ checkHistory' = dismissEntry(checkHistory, m)
                   /\ portIn' =
                        IF Len(checkHistory') # Len(checkHistory)
                        THEN broadcastToSidePanels(portIn, NoTab,
                                 [action |-> "removeSuggestion",
                                  data |-> [timestamp |-> m.timestamp,
                                            elementId |-> m.elementId]])
                        ELSE portIn
                   /\ QueuesFit(portIn')
    /\ UNCHANGED <<pageVars, chanVars, calls, delivering, now, suggestions,
                   currentTabId, removing, histVars>>
    /\ UNCHANGED <<connVars, parseVars>>

\* a connection that is bound to the viewer's active tab from the start
onConnectBound(k, activeTab) ==
    /\ UNCHANGED parseVars
    /\ ~panel[k]
    /\ k \notin DOMAIN sidePanelPorts
    /\ sidePanelPorts' = MapSet(sidePanelPorts, k, [tabId |-> activeTab])
    /\ portIn' = [portIn EXCEPT ![k] =
           <<[action |-> "historyUpdate", history |-> checkHistory]>>]
    /\ suggestions' = [suggestions EXCEPT ![k] = <<>>]
    /\ currentTabId' = [currentTabId EXCEPT ![k] = activeTab]
    /\ portOut' = [portOut EXCEPT ![k] =
           IF activeTab = NoTab THEN <<>>
           ELSE <<[action |-> "registerTab", tabId |-> activeTab,
                   timestamp |-> NoTimestamp, elementId |-> NoElement],
                  [action |-> "requestHistory", tabId |-> activeTab,
                   timestamp |-> NoTimestamp, elementId |-> NoElement]>>]
    /\ removing' = [removing EXCEPT ![k] = {}]
    /\ UNCHANGED <<pageVars, chanVars, checkHistory, calls, delivering, now,
                   histVars>>
    /\ panel' = [panel EXCEPT ![k] = TRUE]
    /\ port' = [port EXCEPT ![k] = TRUE]
    /\ UNCHANGED reconnectTimer

\* runtime.onConnect for a port named sidepanel, with the viewer's
\* connectToBackground and the first syncActiveTab(true)
onConnect(k, activeTab) ==
    /\ UNCHANGED parseVars
    /\ ~panel[k]
    /\ k \notin DOMAIN sidePanelPorts
    /\ sidePanelPorts' = MapSet(sidePanelPorts, k, [tabId |-> NoTab])
    /\ portIn' = [portIn EXCEPT ![k] =
           <<[action |-> "historyUpdate", history |-> checkHistory]>>]
    /\ suggestions' = [suggestions EXCEPT ![k] = <<>>]
    /\ currentTabId' = [currentTabId EXCEPT ![k] = activeTab]
    /\ portOut' = [portOut EXCEPT ![k] =
           IF activeTab = NoTab THEN <<>>
           ELSE <<[action |-> "registerTab", tabId |-> activeTab,
                   timestamp |-> NoTimestamp, elementId |-> NoElement],
                  [action |-> "requestHistory", tabId |-> activeTab,
                   timestamp |-> NoTimestamp, elementId |-> NoElement]>>]
    /\ removing' = [removing EXCEPT ![k] = {}]
    /\ UNCHANGED <<pageVars, chanVars, checkHistory, calls, delivering, now,
                   histVars>>
    /\ panel' = [panel EXCEPT ![k] = TRUE]
    /\ port' = [port EXCEPT ![k] = TRUE]
    /\ UNCHANGED reconnectTimer

\* port.onDisconnect: the panel was closed
onDisconnect(k) ==
    /\ UNCHANGED parseVars
    /\ k \in DOMAIN sidePanelPorts
    /\ LET existingTabId == sidePanelPorts[k].tabId
       IN  /\ sidePanelPorts' = MapDelete(sidePanelPorts, k)
           /\ IF existingTabId # NoTab
              THEN /\ Len(tabQ[existingTabId]) < MaxQueue
                   /\ tabQ' = [tabQ EXCEPT ![existingTabId] =
                          Append(@, [action |-> "sidePanelStatus",
                                     elementId |-> NoElement,
                                     isOpen |-> FALSE])]
              ELSE UNCHANGED tabQ
    /\ portIn' = [portIn EXCEPT ![k] = <<>>]
    /\ portOut' = [portOut EXCEPT ![k] = <<>>]
    /\ suggestions' = [suggestions EXCEPT ![k] = <<>>]
    /\ currentTabId' = [currentTabId EXCEPT ![k] = NoTab]
    /\ removing' = [removing EXCEPT ![k] = {}]
    /\ UNCHANGED <<pageVars, reqQ, respQ, checkHistory, calls, delivering,
                   now, histVars>>
    /\ panel' = [panel EXCEPT ![k] = FALSE]
    /\ port' = [port EXCEPT ![k] = FALSE]
    /\ UNCHANGED reconnectTimer

(***************************************************************************)
(* Viewer session.                                                         *)
(***************************************************************************)
\* handleTabActivated / handleTabUpdated, then the callback of syncActiveTab()
syncActiveTab(k, activeTab) ==
    /\ k \in DOMAIN sidePanelPorts
    /\ currentTabId' = [currentTabId EXCEPT ![k] = activeTab]
    /\ LET register == [action |-> "registerTab", tabId |-> activeTab,
                        timestamp |-> NoTimestamp, elementId |-> NoElement]
           request == [action |-> "requestHistory", tabId |-> activeTab,
                       timestamp |-> NoTimestamp, elementId |-> NoElement]
       IN  portOut' = [portOut EXCEPT ![k] =
               IF suggestions[k] = <<>> THEN @ \o <<register, request>>
               ELSE Append(@, register)]
    /\ Len(portOut'[k]) <= MaxPortQueue
    /\ UNCHANGED <<pageVars, chanVars, bgVars, suggestions, portIn, removing,
                   histVars>>
    /\ UNCHANGED <<connVars, parseVars>>

\* renderSuggestions without its slice(0, 10)
renderSuggestionsWhole(k, list) ==
    /\ suggestions' = [suggestions EXCEPT ![k] = list]
    /\ currentTabId' = IF list = <<>> THEN currentTabId
                       ELSE [currentTabId EXCEPT ![k] = list[1].tabId]

\* state.suggestions and state.currentTabId after renderSuggestions(list)
renderSuggestions(k, list) ==
    /\ suggestions' = [suggestions EXCEPT ![k] = Take(list, DisplayLimit)]
    /\ currentTabId' = IF list = <<>> THEN currentTabId
                       ELSE [currentTabId EXCEPT ![k] = list[1].tabId]

sameKey(a, b) == a.timestamp = b.timestamp /\ a.elementId = b.elementId

upsertSuggestion(list, suggestion) ==
    LET hits == {i \in 1..Len(list) : sameKey(list[i], suggestion)}
        \* findIndex counts from 0, the positions of a sequence from 1
        existingIndex == IF hits = {} THEN -1
                         ELSE (CHOOSE i \in hits : \A j \in hits : i <= j) - 1
        updatedSuggestions == <<suggestion>> \o list
    IN  IF existingIndex >= 0
        THEN RemoveAt(updatedSuggestions, existingIndex + 2)
        ELSE updatedSuggestions

removeSuggestion(list, identifier) ==
    LET sameTimestamp(entry) == entry.timestamp = identifier.timestamp
        sameElement(entry) == IF identifier.elementId # NoElement
                              THEN entry.elementId = identifier.elementId
                              ELSE TRUE
    IN  IF identifier.timestamp = NoTimestamp THEN list
        ELSE SelectSeq(list, LAMBDA entry :
                 ~(sameTimestamp(entry) /\ sameElement(entry)))

\* a viewer that renders every snapshot, the empty ones too
handlePortMessageAlways(k) ==
    /\ k \in DOMAIN sidePanelPorts
    /\ portIn[k] # <<>>
    /\ portIn' = [portIn EXCEPT ![k] = Tail(@)]
    /\ LET message == Head(portIn[k])
       IN  CASE message.action = "displaySuggestion" ->
                  renderSuggestions(k, upsertSuggestion(suggestions[k],
                                                        message.data))
             [] message.action = "historyUpdate" ->
                  renderSuggestions(k, message.history)
             [] message.action = "removeSuggestion" ->
                  IF message.data.timestamp = NoTimestamp
                  THEN UNCHANGED <<suggestions, currentTabId>>
                  ELSE renderSuggestions(k, removeSuggestion(suggestions[k],
                                                             message.data))
             [] OTHER -> UNCHANGED <<suggestions, currentTabId>>
    /\ UNCHANGED <<pageVars, chanVars, bgVars, portOut, removing, histVars>>
    /\ UNCHANGED <<connVars, parseVars>>

handlePortMessage(k) ==
    /\ k \in DOMAIN sidePanelPorts
    /\ portIn[k] # <<>>
    /\ portIn' = [portIn EXCEPT ![k] = Tail(@)]
    /\ LET message == Head(portIn[k])
       IN  CASE message.action = "displaySuggestion" ->
                  renderSuggestions(k, upsertSuggestion(suggestions[k],
                                                        message.data))
             [] message.action = "historyUpdate" ->
                  IF message.history # <<>>
                  THEN renderSuggestions(k, message.history)
                  ELSE IF suggestions[k] = <<>>
                  THEN renderSuggestions(k, <<>>)
                  ELSE UNCHANGED <<suggestions, currentTabId>>
             [] message.action = "removeSuggestion" ->
                  IF message.data.timestamp = NoTimestamp
                  THEN UNCHANGED <<suggestions, currentTabId>>
                  ELSE renderSuggestions(k, removeSuggestion(suggestions[k],
                                                             message.data))
             [] OTHER -> UNCHANGED <<suggestions, currentTabId>>
    /\ UNCHANGED <<pageVars, chanVars, bgVars, portOut, removing, histVars>>
    /\ UNCHANGED <<connVars, parseVars>>

\* the Dismiss button of card i
dismissClicked(k, i) ==
    /\ k \in DOMAIN sidePanelPorts
    /\ i \in 1..Len(suggestions[k])
    /\ Len(portOut[k]) < MaxPortQueue
    /\ portOut' = [portOut EXCEPT ![k] =
           Append(@, [action |-> "dismissEntry", tabId |-> NoTab,
                      timestamp |-> suggestions[k][i].timestamp,
                      elementId |-> suggestions[k][i].elementId])]
    /\ removing' = [removing EXCEPT ![k] =
           @ \cup {[timestamp |-> suggestions[k][i].timestamp,
                    elementId |-> suggestions[k][i].elementId]}]
    /\ UNCHANGED <<pageVars, chanVars, bgVars, suggestions, currentTabId,
                   portIn, histVars>>
    /\ UNCHANGED <<connVars, parseVars>>

\* the 300 ms timeout of a dismissed card
dismissTimeout(k) ==
    /\ k \in DOMAIN sidePanelPorts
    /\ \E data \in removing[k] :
          /\ removing' = [removing EXCEPT ![k] = @ \ {data}]
          /\ suggestions' = [suggestions EXCEPT ![k] =
                 SelectSeq(@, LAMBDA entry : ~sameKey(entry, data))]
          /\ currentTabId' = IF suggestions'[k] = <<>>
                             THEN [currentTabId EXCEPT ![k] = NoTab]
                             ELSE currentTabId
    /\ UNCHANGED <<pageVars, chanVars, bgVars, portIn, portOut, histVars>>
    /\ UNCHANGED <<connVars, parseVars>>

\* a requestHistory message that names no tab
postRequestHistory(k) ==
    /\ k \in DOMAIN sidePanelPorts
    /\ Len(portOut[k]) < MaxPortQueue
    /\ portOut' = [portOut EXCEPT ![k] =
           Append(@, [action |-> "requestHistory", tabId |-> NoTab,
                      timestamp |-> NoTimestamp, elementId |-> NoElement])]
    /\ UNCHANGED <<pageVars, chanVars, bgVars, suggestions, currentTabId,
                   portIn, removing, histVars>>
    /\ UNCHANGED <<connVars, parseVars>>

\* a dismissEntry message with its optional fields left out
postDismissEntry(k, timestamp, elementId) ==
    /\ k \in DOMAIN sidePanelPorts
    /\ Len(portOut[k]) < MaxPortQueue
    /\ portOut' = [portOut EXCEPT ![k] =
           Append(@, [action |-> "dismissEntry", tabId |-> NoTab,
                      timestamp |-> timestamp, elementId |-> elementId])]
    /\ UNCHANGED <<pageVars, chanVars, bgVars, suggestions, currentTabId,
                   portIn, removing, histVars>>
    /\ UNCHANGED <<connVars, parseVars>>

(***************************************************************************)
(* The service worker stops and the panels reconnect.                      *)
(***************************************************************************)
\* the browser terminates the service worker: its state and its pending
\* work are gone, the requests on their way are rejected, and every panel's
\* onDisconnect listener sets state.port to null and starts the timer
workerStopped ==
    /\ UNCHANGED parseVars
    /\ DOMAIN sidePanelPorts # {}
    /\ reqQ' = [t \in Tabs |-> <<>>]
    /\ respQ' = [t \in Tabs |->
           respQ[t] \o [i \in 1..Len(reqQ[t]) |->
               [kind |-> "rejected", success |-> FALSE, panelOpen |-> FALSE,
                elementId |-> NoElement, text |-> <<>>]]]
    /\ checkHistory' = <<>>
    /\ sidePanelPorts' = EmptyMap
    /\ calls' = <<>>
    /\ delivering' = <<>>
    /\ portIn' = [k \in Viewers |-> <<>>]
    /\ portOut' = [k \in Viewers |-> <<>>]
    /\ port' = [k \in Viewers |-> FALSE]
    /\ reconnectTimer' = [k \in Viewers |->
           reconnectTimer[k] \/ k \in DOMAIN sidePanelPorts]
    /\ UNCHANGED <<pageVars, tabQ, now, suggestions, currentTabId, removing,
                   panel, histVars>>

\* the 1000 ms timer runs connectToBackground, which keeps the list of the
\* panel; throws: chrome.runtime.connect fails and the catch block logs
reconnectTimerFires(k, activeTab, throws) ==
    /\ UNCHANGED parseVars
    /\ reconnectTimer[k]
    /\ reconnectTimer' = [reconnectTimer EXCEPT ![k] = FALSE]
    /\ IF throws
       THEN UNCHANGED <<sidePanelPorts, portIn, portOut, currentTabId, port>>
       ELSE /\ sidePanelPorts' = MapSet(sidePanelPorts, k, [tabId |-> NoTab])
            /\ portIn' = [portIn EXCEPT ![k] =
                   <<[action |-> "historyUpdate", history |-> checkHistory]>>]
            /\ currentTabId' = [currentTabId EXCEPT ![k] = activeTab]
            /\ portOut' = [portOut EXCEPT ![k] =
                   <<[action |-> "registerTab", tabId |-> activeTab,
                      timestamp |-> NoTimestamp, elementId |-> NoElement],
                     [action |-> "requestHistory", tabId |-> activeTab,
                      timestamp |-> NoTimestamp, elementId |-> NoElement]>>]
            /\ port' = [port EXCEPT ![k] = TRUE]
    /\ UNCHANGED <<pageVars, chanVars, checkHistory, calls, delivering, now,
                   suggestions, removing, panel, histVars>>

\* a panel without a port is closed: its document and its timer are gone
panelClosed(k) ==
    /\ UNCHANGED parseVars
    /\ panel[k]
    /\ ~port[k]
    /\ panel' = [panel EXCEPT ![k] = FALSE]
    /\ reconnectTimer' = [reconnectTimer EXCEPT ![k] = FALSE]
    /\ suggestions' = [suggestions EXCEPT ![k] = <<>>]
    /\ currentTabId' = [currentTabId EXCEPT ![k] = NoTab]
    /\ removing' = [removing EXCEPT ![k] = {}]
    /\ UNCHANGED <<pageVars, chanVars, bgVars, portIn, portOut, port,
                   histVars>>

(***************************************************************************)
(* The extension is reloaded: every content script is orphaned, the        *)
(* service worker starts again and the panels are closed.                  *)
(***************************************************************************)
extensionReloaded ==
    /\ UNCHANGED parseVars
    /\ \E t \in Tabs : contextValid[t]
    /\ contextValid' = [t \in Tabs |-> FALSE]
    /\ reqQ' = [t \in Tabs |-> <<>>]
    /\ respQ' = [t \in Tabs |->
           [i \in 1..(Len(respQ[t]) + Len(reqQ[t])) |->
               [kind |-> "rejected", success |-> FALSE, panelOpen |-> FALSE,
                elementId |-> NoElement, text |-> <<>>]]]
    /\ tabQ' = [t \in Tabs |-> <<>>]
    /\ checkHistory' = <<>>
    /\ sidePanelPorts' = EmptyMap
    /\ calls' = <<>>
    /\ delivering' = <<>>
    /\ suggestions' = [k \in Viewers |-> <<>>]
    /\ currentTabId' = [k \in Viewers |-> NoTab]
    /\ portIn' = [k \in Viewers |-> <<>>]
    /\ portOut' = [k \in Viewers |-> <<>>]
    /\ removing' = [k \in Viewers |-> {}]
    /\ UNCHANGED <<text, sidePanelOpen, typingTimers, liveTimers,
                   lastCheckedText, now, histVars>>
    /\ panel' = [k \in Viewers |-> FALSE]
    /\ port' = [k \in Viewers |-> FALSE]
    /\ reconnectTimer' = [k \in Viewers |-> FALSE]

(***************************************************************************)
(* The response parser.  A reply is a sequence of tokens: a newline, a     *)
(* blank, a dash, a label or a sentence; no sentence holds a newline, a    *)
(* dash or a label.                                                        *)
(***************************************************************************)
Original == "I has went to the store yesterday and buy some milk."
Sentence == "I went to the store yesterday and bought some milk."
NoCorrection == "No correction is needed."
NoneFound == "None"

Least(S) == CHOOSE x \in S : \A y \in S : x <= y

\* s.toLowerCase().includes('no correction')
includesNoCorrection(s) == \E i \in 1..Len(s) : s[i] = NoCorrection

\* s.toLowerCase().includes('none')
includesNone(s) == \E i \in 1..Len(s) : s[i] = NoneFound

\* group 1 of /(?:revised|corrected):\s*(.+?)(?:\n-|\n\n|$)/is, or <<>> when
\* there is no match: the label first in the reply that has a token after
\* it, the white space after the label (all but its last token when nothing
\* else follows), then the fewest tokens, one at least, up to a newline before
\* a dash, two newlines or the end of the reply
revisedMatch(s) ==
    LET at == {i \in 1..(Len(s) - 1) : s[i] \in {"Revised:", "Corrected:"}}
    IN  IF at = {} THEN <<>>
        ELSE LET inked == {j \in (Least(at) + 1)..Len(s) : ~IsSpace(s[j])}
                 from == IF inked = {} THEN Len(s) ELSE Least(inked)
                 upTo == Least({e \in from..Len(s) :
                                   \/ e = Len(s)
                                   \/ /\ e + 2 <= Len(s)
                                      /\ s[e + 1] = "\n"
                                      /\ s[e + 2] \in {"-", "\n"}})
             IN  SubSeq(s, from, upTo)

\* group 1 of /(?:alternative):\s*(.+?)(?:\n-|\n\n|$)/is, or <<>>
alternativeMatch(s) ==
    LET at == {i \in 1..(Len(s) - 1) : s[i] = "Alternative:"}
    IN  IF at = {} THEN <<>>
        ELSE LET inked == {j \in (Least(at) + 1)..Len(s) : ~IsSpace(s[j])}
                 from == IF inked = {} THEN Len(s) ELSE Least(inked)
                 upTo == Least({e \in from..Len(s) :
                                   \/ e = Len(s)
                                   \/ /\ e + 2 <= Len(s)
                                      /\ s[e + 1] = "\n"
                                      /\ s[e + 2] \in {"-", "\n"}})
             IN  SubSeq(s, from, upTo)

\* group 1 of /summary:?\s*(.+?)(?:\n\n|$)/is, or <<>>; the colon is
\* optional, so a label that ends the reply matches with its colon as group 1
summaryMatch(s) ==
    LET at == {i \in 1..Len(s) : s[i] = "Summary:"}
    IN  IF at = {} THEN <<>>
        ELSE IF Least(at) = Len(s) THEN <<":">>
        ELSE LET inked == {j \in (Least(at) + 1)..Len(s) : ~IsSpace(s[j])}
                 from == IF inked = {} THEN Len(s) ELSE Least(inked)
                 upTo == Least({e \in from..Len(s) :
                                   \/ e = Len(s)
                                   \/ /\ e + 2 <= Len(s)
                                      /\ s[e + 1] = "\n"
                                      /\ s[e + 2] = "\n"})
             IN  SubSeq(s, from, upTo)

\* group 1 of /issues?\s+found:?\s*([\s\S]*?)(?:\n\n|summary:|$)/i, or <<>>
issuesMatch(s) ==
    LET at == {i \in 1..Len(s) : s[i] = "Issues Found:"}
    IN  IF at = {} THEN <<>>
        ELSE LET inked == {j \in (Least(at) + 1)..Len(s) : ~IsSpace(s[j])}
                 from == IF inked = {} THEN Len(s) + 1 ELSE Least(inked)
                 upTo == Least({e \in (from - 1)..Len(s) :
                                   \/ e = Len(s)
                                   \/ /\ e + 2 <= Len(s)
                                      /\ s[e + 1] = "\n"
                                      /\ s[e + 2] = "\n"
                                   \/ /\ e + 1 <= Len(s)
                                      /\ s[e + 1] = "Summary:"})
             IN  SubSeq(s, from, upTo)

\* s.split('\n')
RECURSIVE split(_)
split(s) ==
    LET at == {i \in 1..Len(s) : s[i] = "\n"}
    IN  IF at = {} THEN <<s>>
        ELSE <<SubSeq(s, 1, Least(at) - 1)>>
                 \o split(SubSeq(s, Least(at) + 1, Len(s)))

\* line.replace(/^[\d\-\*\•\.\)]\s*/, '')
stripBullet(line) ==
    IF line # <<>> /\ line[1] = "-" THEN TrimStart(Tail(line)) ELSE line

\* the lines kept of the text under the heading
issueLines(s) ==
    LET lines == SelectSeq(split(issuesMatch(s)), LAMBDA l : trim(l) # <<>>)
        cleaned == [k \in 1..Len(lines) |-> trim(stripBullet(lines[k]))]
    IN  SelectSeq(cleaned,
                  LAMBDA l : l # <<>> /\ ~includesNone(l) /\ l # <<"-">>)

\* let correctedText = originalText; ... correctedText = revised
correctedTextOf(content, originalText) ==
    LET revised == trim(revisedMatch(content))
    IN  IF /\ revisedMatch(content) # <<>>
           /\ ~includesNoCorrection(revised)
           /\ Len(revised) > 0
        THEN revised
        ELSE originalText

\* the numbered lines of the issues: `${index + 1}. ${issue}\n`
RECURSIVE numbered(_, _)
numbered(issues, index) ==
    IF index > Len(issues) THEN <<>>
    ELSE <<ToString(index), ".", " ">> \o issues[index] \o <<"\n">>
             \o numbered(issues, index + 1)

GoodText == <<"Your text looks good! No grammar issues found.">>

\* formatSuggestion without its first return
formatSuggestionOfIssues(r) ==
    (IF Len(r.issues) > 0
     THEN <<"**Issues Found:**", "\n">> \o numbered(r.issues, 1)
     ELSE <<>>)
    \o (IF r.alternative # <<>>
        THEN <<"\n", "**Alternative:**", "\n">> \o r.alternative \o <<"\n">>
        ELSE <<>>)
    \o (IF r.summary # <<>>
        THEN <<"\n", "**Summary:**", "\n">> \o r.summary
        ELSE <<>>)

formatSuggestion(r) ==
    IF ~r.hasIssues THEN GoodText ELSE formatSuggestionOfIssues(r)

parseAIResponse(content, originalText) ==
    LET correctedText == correctedTextOf(content, originalText)
        alternative == trim(alternativeMatch(content))
        issues == issueLines(content)
        summary == stripBullet(trim(summaryMatch(content)))
        hasIssues == \/ Len(issues) > 0
                     \/ /\ correctedText # originalText
                        /\ ~includesNoCorrection(content)
    IN  [hasIssues |-> hasIssues, issues |-> issues,
         correctedText |-> correctedText, alternative |-> alternative,
         summary |-> summary, explanation |-> content,
         suggestion |->
             formatSuggestion([hasIssues |-> hasIssues, issues |-> issues,
                               correctedText |-> correctedText,
                               alternative |-> alternative,
                               summary |-> summary])]

\* the replies: up to MaxLines lines, each with or without a bullet, a label
\* and a sentence, with one or two newlines between them
Bullets == {<<>>, <<"-", " ">>}
Labels == {<<>>, <<"Revised:">>, <<"Alternative:">>, <<"Issues Found:">>,
           <<"Summary:">>}
Bodies == {<<>>} \cup
          {<<" ", w>> : w \in {Original, Sentence, NoCorrection, NoneFound}}
Lines == {b \o l \o w : b \in Bullets, l \in Labels, w \in Bodies}
Breaks == {<<"\n">>, <<"\n", "\n">>}

RECURSIVE RepliesOf(_)
RepliesOf(n) ==
    IF n = 1 THEN Lines
    ELSE {r \o b \o l : r \in RepliesOf(n - 1), b \in Breaks, l \in Lines}

Replies == UNION {RepliesOf(n) : n \in 1..MaxLines} \ {<<>>}

\* checkGrammarWithAI hands the reply and the text to the parser; a later
\* check of the same text can get the same reply
parseReply ==
    /\ Len(result) < MaxParses
    /\ result' = Append(result, parseAIResponse(modelReply, original))
    /\ UNCHANGED <<pageVars, chanVars, bgVars, viewerVars, connVars, modelReply,
                   original, histVars>>

(***************************************************************************)
(* The whole system.                                                       *)
(***************************************************************************)
\* the state of the page monitors, the channels, the registry and the viewers
\* when the extension has started
InitState ==
    /\ text = [t \in Tabs |-> [f \in Fields |-> <<>>]]
    /\ sidePanelOpen = [t \in Tabs |-> FALSE]
    /\ typingTimers = [t \in Tabs |-> EmptyMap]
    /\ liveTimers = [t \in Tabs |-> {}]
    /\ lastCheckedText = [t \in Tabs |-> EmptyMap]
    /\ contextValid = [t \in Tabs |-> TRUE]
    /\ reqQ = [t \in Tabs |-> <<>>]
    /\ respQ = [t \in Tabs |-> <<>>]
    /\ tabQ = [t \in Tabs |-> <<>>]
    /\ sidePanelPorts = EmptyMap
    /\ calls = <<>>
    /\ delivering = <<>>
    /\ suggestions = [k \in Viewers |-> <<>>]
    /\ currentTabId = [k \in Viewers |-> NoTab]
    /\ portIn = [k \in Viewers |-> <<>>]
    /\ portOut = [k \in Viewers |-> <<>>]
    /\ removing = [k \in Viewers |-> {}]
    /\ panel = [k \in Viewers |-> FALSE]
    /\ port = [k \in Viewers |-> FALSE]
    /\ reconnectTimer = [k \in Viewers |-> FALSE]
    /\ acceptedText = [t \in Tabs |-> [f \in Fields |-> {}]]
    /\ reattached = [t \in Tabs |-> "never"]

\* the same, with no reply of the model at hand
InitSessions ==
    /\ InitState
    /\ modelReply = <<>>
    /\ original = <<>>
    /\ result = <<>>

Init ==
    /\ InitSessions
    /\ checkHistory = <<>>
    /\ now = 1

\* the history after 49 checks of tab 1 that found no issues, one per
\* millisecond, the oldest at time 1
EarlierChecks ==
    [i \in 1..(HistoryLimit - 1) |->
        [timestamp |-> HistoryLimit - i, originalText |-> LongB,
         elementId |-> "f1", tabId |-> 1,
         hasIssues |-> FALSE, noIssues |-> TRUE, resultHasIssues |-> FALSE]]

\* a session whose panels were closed after 49 recorded checks
InitHist ==
    /\ InitSessions
    /\ checkHistory = EarlierChecks
    /\ now = HistoryLimit

\* a reply of the model and the text it is about, before they are parsed
InitParse ==
    /\ InitState
    /\ checkHistory = <<>>
    /\ now = 1
    /\ modelReply \in Replies
    /\ original = <<Original>>
    /\ result = <<>>

\* a session with no record yet, or one whose panels were closed after 49
\* recorded checks
InitSnapshot == Init \/ InitHist

Next ==
    \/ \E t \in Tabs, f \in Fields, newText \in Texts : handleInput(t, f, newText)
    \/ \E t \in Tabs, f \in Fields : handleFocus(t, f)
    \/ \E t \in Tabs, f \in Fields : handleClick(t, f)
    \/ \E t \in Tabs : TimerFires(t)
    \/ \E t \in Tabs : checkGrammarResumes(t)
    \/ \E t \in Tabs : checkGrammarCatches(t)
    \/ \E t \in Tabs : handleMessage(t)
    \/ \E t \in Tabs : onCheckGrammar(t)
    \/ \E i \in 1..MaxChecks, hasIssues \in BOOLEAN :
          Len(checkHistory) < MaxHistory /\ modelCallSucceeds(i, hasIssues)
    \/ \E i \in 1..MaxChecks : suggestionSent(i)
    \/ \E i \in 1..MaxChecks, failure \in Failures :
          modelCallFails(i, failure)
    \/ Tick
    \/ \E k \in Viewers, activeTab \in Tabs \cup {NoTab} : onConnect(k, activeTab)
    \/ \E k \in Viewers : onDisconnect(k)
    \/ \E k \in Viewers : onRegisterTab(k)
    \/ \E k \in Viewers : onRequestHistory(k)
    \/ \E k \in Viewers : onDismissEntry(k)
    \/ \E k \in Viewers, activeTab \in Tabs : syncActiveTab(k, activeTab)
    \/ \E k \in Viewers : handlePortMessage(k)
    \/ \E k \in Viewers, i \in 1..DisplayLimit : dismissClicked(k, i)
    \/ \E k \in Viewers : dismissTimeout(k)
    \/ \E k \in Viewers, timestamp \in {NoTimestamp} \cup 1..MaxTime,
          elementId \in Fields \cup {NoElement} :
          postDismissEntry(k, timestamp, elementId)
    \/ extensionReloaded
    \/ workerStopped
    \/ \E k \in Viewers, activeTab \in Tabs, throws \in BOOLEAN :
          reconnectTimerFires(k, activeTab, throws)
    \/ \E k \in Viewers : panelClosed(k)

\* The page monitor of tab 1 with one field, one viewer, and the coordinator's
\* gate and registry.  The actions left out write no variable that the page
\* monitor reads.
NextPage ==
    \/ \E newText \in Texts : handleInput(1, "f1", newText)
    \/ handleFocus(1, "f1")
    \/ handleClick(1, "f1")
    \/ TimerFires(1)
    \/ checkGrammarResumes(1)
    \/ handleMessage(1)
    \/ onCheckGrammar(1)
    \/ \E i \in 1..MaxChecks : modelCallFails(i, StatusFailure)
    \/ \E activeTab \in {1, NoTab} : onConnect("v1", activeTab)
    \/ onDisconnect("v1")
    \/ onRegisterTab("v1")
    \/ onRequestHistory("v1")
    \/ syncActiveTab("v1", 1)
    \/ handlePortMessage("v1")

\* The coordinator's gate: the page monitor of tab 1 sends requests while one
\* viewer connects, follows the active tab between tab 1 and tab 2 and
\* disconnects.  The user types while no timer is pending.
NextGate ==
    \/ liveTimers[1] = {} /\ handleInput(1, "f1", LongB)
    \/ TimerFires(1)
    \/ checkGrammarResumes(1)
    \/ \E t \in Tabs : handleMessage(t)
    \/ onCheckGrammar(1)
    \/ \E i \in 1..MaxChecks : modelCallFails(i, StatusFailure)
    \/ \E activeTab \in Tabs \cup {NoTab} : onConnect("v1", activeTab)
    \/ onDisconnect("v1")
    \/ onRegisterTab("v1")
    \/ onRequestHistory("v1")
    \/ \E activeTab \in Tabs : syncActiveTab("v1", activeTab)
    \/ handlePortMessage("v1")

\* the entries of the history recorded at the present time
recordedNow == SelectSeq(checkHistory, LAMBDA e : e.timestamp = now)

\* The cut of the history: checks of tab 1 complete one after the other on top
\* of 49 earlier records, with one viewer.
NextHist ==
    \/ \E newText \in {PaddedLongA, LongB} :
          /\ liveTimers[1] = {} /\ ChecksInFlight = 0 /\ respQ[1] = <<>>
          /\ handleInput(1, "f1", newText)
    \/ TimerFires(1)
    \/ checkGrammarResumes(1)
    \/ handleMessage(1)
    \/ onCheckGrammar(1)
    \/ \E i \in 1..MaxChecks, hasIssues \in BOOLEAN :
          Len(recordedNow) < MaxHistory /\ modelCallSucceeds(i, hasIssues)
    \/ \E i \in 1..MaxChecks : suggestionSent(i)
    \/ onConnect("v1", 1)
    \/ onRegisterTab("v1")
    \/ onRequestHistory("v1")
    \/ handlePortMessage("v1")

\* The records of the history: checks of tab 1 that complete one after the
\* other, with and without issues and at different times, shown by one viewer.
NextRecord ==
    \/ \E newText \in {PaddedLongA, LongB} :
          /\ liveTimers[1] = {} /\ ChecksInFlight = 0 /\ respQ[1] = <<>>
          /\ handleInput(1, "f1", newText)
    \/ TimerFires(1)
    \/ checkGrammarResumes(1)
    \/ handleMessage(1)
    \/ onCheckGrammar(1)
    \/ \E i \in 1..MaxChecks, hasIssues \in BOOLEAN :
          Len(checkHistory) < MaxHistory /\ modelCallSucceeds(i, hasIssues)
    \/ \E i \in 1..MaxChecks : suggestionSent(i)
    \/ Tick
    \/ onConnect("v1", 1)
    \/ onRegisterTab("v1")
    \/ onRequestHistory("v1")
    \/ handlePortMessage("v1")

\* The order of the history: concurrent checks of tab 1 complete in any order
\* and at different times while one viewer dismisses the cards it shows.
NextOrder ==
    \/ \E newText \in {PaddedLongA, LongB} :
          liveTimers[1] = {} /\ handleInput(1, "f1", newText)
    \/ TimerFires(1)
    \/ checkGrammarResumes(1)
    \/ handleMessage(1)
    \/ onCheckGrammar(1)
    \/ \E i \in 1..MaxChecks :
          Len(checkHistory) < MaxHistory /\ modelCallSucceeds(i, FALSE)
    \/ Tick
    \/ onConnect("v1", 1)
    \/ onRegisterTab("v1")
    \/ onRequestHistory("v1")
    \/ onDismissEntry("v1")
    \/ handlePortMessage("v1")
    \/ \E i \in 1..DisplayLimit :
          portOut["v1"] = <<>> /\ dismissClicked("v1", i)
    \/ dismissTimeout("v1")

\* Dismissal: one viewer bound to tab 1 dismisses the cards it shows and posts
\* dismissEntry messages without a timestamp, without a field id or for a
\* field that was never checked; the checks of tab 1 find no issues and
\* complete one after the other.
NextDismiss ==
    \/ \E newText \in {PaddedLongA, LongB} :
          /\ liveTimers[1] = {} /\ ChecksInFlight = 0 /\ respQ[1] = <<>>
          /\ handleInput(1, "f1", newText)
    \/ TimerFires(1)
    \/ checkGrammarResumes(1)
    \/ handleMessage(1)
    \/ onCheckGrammar(1)
    \/ \E i \in 1..MaxChecks :
          Len(checkHistory) < MaxHistory /\ modelCallSucceeds(i, FALSE)
    \/ Tick
    \/ onConnect("v1", 1)
    \/ onRegisterTab("v1")
    \/ onRequestHistory("v1")
    \/ onDismissEntry("v1")
    \/ handlePortMessage("v1")
    \/ \E i \in 1..DisplayLimit :
          portOut["v1"] = <<>> /\ dismissClicked("v1", i)
    \/ dismissTimeout("v1")
    \/ \E timestamp \in {NoTimestamp} \cup 1..MaxTime,
          elementId \in {"f2", NoElement} :
          portOut["v1"] = <<>> /\ postDismissEntry("v1", timestamp, elementId)

\* The removal notice: viewer v1 is bound to tab 1 and dismisses its cards, a
\* second panel v2 is opened on tab 2 once the history has an entry and only
\* listens; tab 2 runs no page monitor.  Checks complete one after the other.
NextNotice ==
    \/ \E newText \in {PaddedLongA, LongB} :
          /\ liveTimers[1] = {} /\ ChecksInFlight = 0 /\ respQ[1] = <<>>
          /\ handleInput(1, "f1", newText)
    \/ TimerFires(1)
    \/ checkGrammarResumes(1)
    \/ handleMessage(1)
    \/ onCheckGrammar(1)
    \/ \E i \in 1..MaxChecks :
          Len(checkHistory) < MaxHistory /\ modelCallSucceeds(i, FALSE)
    \/ Tick
    \/ onConnect("v1", 1)
    \/ checkHistory # <<>> /\ onConnect("v2", 2)
    \/ \E k \in Viewers : onRegisterTab(k)
    \/ \E k \in Viewers : onRequestHistory(k)
    \/ onDismissEntry("v1")
    \/ \E k \in Viewers : handlePortMessage(k)
    \/ \E i \in 1..DisplayLimit :
          portOut["v1"] = <<>> /\ dismissClicked("v1", i)
    \/ dismissTimeout("v1")

\* The extension is reloaded under a page monitor at work: the page monitor
\* of tab 1 with one field and one viewer, before and after the reload.
NextReload ==
    \/ \E newText \in {PaddedLongA, LongB} : handleInput(1, "f1", newText)
    \/ TimerFires(1)
    \/ checkGrammarResumes(1)
    \/ checkGrammarCatches(1)
    \/ handleMessage(1)
    \/ onCheckGrammar(1)
    \/ \E i \in 1..MaxChecks : modelCallFails(i, StatusFailure)
    \/ onConnect("v1", 1)
    \/ onRegisterTab("v1")
    \/ onRequestHistory("v1")
    \/ handlePortMessage("v1")
    \/ extensionReloaded

\* Failing model calls: the checks of tab 1 fail in every way while viewer v1
\* is bound to tab 1 or closed and viewer v2 is opened on tab 2.
NextFail ==
    \/ liveTimers[1] = {} /\ handleInput(1, "f1", LongB)
    \/ TimerFires(1)
    \/ checkGrammarResumes(1)
    \/ handleMessage(1)
    \/ onCheckGrammar(1)
    \/ \E i \in 1..MaxChecks, failure \in Failures : modelCallFails(i, failure)
    \/ onConnect("v1", 1)
    \/ onConnect("v2", 2)
    \/ onDisconnect("v1")
    \/ \E k \in Viewers : onRegisterTab(k)
    \/ \E k \in Viewers : onRequestHistory(k)
    \/ \E k \in Viewers : handlePortMessage(k)

\* The registry: panel v1 is opened on tab 1 and panel v2 on either tab, both
\* follow the active tab and are closed, while the page monitor of tab 1 types into one field and
\* its checks fail.
NextRegistry ==
    \/ liveTimers[1] = {} /\ ChecksInFlight = 0 /\ respQ[1] = <<>>
          /\ handleInput(1, "f1", LongB)
    \/ TimerFires(1)
    \/ checkGrammarResumes(1)
    \/ \E t \in Tabs : handleMessage(t)
    \/ onCheckGrammar(1)
    \/ \E i \in 1..MaxChecks : modelCallFails(i, StatusFailure)
    \/ onConnect("v1", 1)
    \/ \E activeTab \in Tabs : onConnect("v2", activeTab)
    \/ \E k \in Viewers : onDisconnect(k)
    \/ \E k \in Viewers : onRegisterTab(k)
    \/ \E k \in Viewers : onRequestHistory(k)
    \/ \E k \in Viewers, activeTab \in Tabs :
          portOut[k] = <<>> /\ syncActiveTab(k, activeTab)
    \/ \E k \in Viewers : handlePortMessage(k)

\* The history on request: one panel follows the active tab between tabs 1
\* and 2, both pages have a check recorded, one after the other, and the panel
\* asks for the history of its tab or of every tab.
NextHistory ==
    \/ \E t \in Tabs :
          /\ \A u \in Tabs : liveTimers[u] = {} /\ respQ[u] = <<>> /\ reqQ[u] = <<>>
          /\ ChecksInFlight = 0
          /\ handleInput(t, "f1", LongB)
    \/ \E t \in Tabs : TimerFires(t)
    \/ \E t \in Tabs : checkGrammarResumes(t)
    \/ \E t \in Tabs : handleMessage(t)
    \/ \E t \in Tabs : onCheckGrammar(t)
    \/ \E i \in 1..MaxChecks :
          Len(checkHistory) < MaxHistory /\ modelCallSucceeds(i, FALSE)
    \/ onConnect("v1", 1)
    \/ onRegisterTab("v1")
    \/ onRequestHistory("v1")
    \/ \E activeTab \in Tabs :
          portOut["v1"] = <<>> /\ syncActiveTab("v1", activeTab)
    \/ portOut["v1"] = <<>> /\ postRequestHistory("v1")
    \/ handlePortMessage("v1")

\* The snapshots: one panel is opened on tab 1 or on tab 2, which has no
\* record, and closed again, over an empty history or over 49 earlier
\* records, while checks of tab 1 complete one after the other.
NextSnapshot ==
    \/ liveTimers[1] = {} /\ ChecksInFlight = 0 /\ respQ[1] = <<>>
          /\ handleInput(1, "f1", LongB)
    \/ TimerFires(1)
    \/ checkGrammarResumes(1)
    \/ handleMessage(1)
    \/ onCheckGrammar(1)
    \/ \E i \in 1..MaxChecks :
          Len(recordedNow) < MaxHistory /\ modelCallSucceeds(i, FALSE)
    \/ \E activeTab \in Tabs : onConnect("v1", activeTab)
    \/ onDisconnect("v1")
    \/ onRegisterTab("v1")
    \/ onRequestHistory("v1")
    \/ handlePortMessage("v1")

\* The lost connection: two panels are opened and closed on either tab, the
\* service worker stops under them and their timers reconnect them or fail
\* to.
NextReconnect ==
    \/ \E k \in Viewers, activeTab \in Tabs : onConnect(k, activeTab)
    \/ \E k \in Viewers : onDisconnect(k)
    \/ \E k \in Viewers : onRegisterTab(k)
    \/ \E k \in Viewers : onRequestHistory(k)
    \/ \E k \in Viewers : handlePortMessage(k)
    \/ \E t \in Tabs : handleMessage(t)
    \/ workerStopped
    \/ \E k \in Viewers, activeTab \in Tabs, throws \in BOOLEAN :
          reconnectTimerFires(k, activeTab, throws)
    \/ \E k \in Viewers : panelClosed(k)

\* The late completion: the checks of tab 1 complete while panel v1, bound to
\* tab 1, is open, has gone to tab 2 or is closed, and panel v2 is open with
\* no active tab to register.
NextLate ==
    \/ liveTimers[1] = {} /\ ChecksInFlight = 0 /\ respQ[1] = <<>>
          /\ handleInput(1, "f1", LongB)
    \/ TimerFires(1)
    \/ checkGrammarResumes(1)
    \/ \E t \in Tabs : handleMessage(t)
    \/ onCheckGrammar(1)
    \/ \E i \in 1..MaxChecks, hasIssues \in BOOLEAN :
          Len(checkHistory) < MaxHistory /\ modelCallSucceeds(i, hasIssues)
    \/ \E i \in 1..MaxChecks : suggestionSent(i)
    \/ onConnect("v1", 1)
    \/ onConnect("v2", NoTab)
    \/ \E k \in Viewers : onDisconnect(k)
    \/ onRegisterTab("v1")
    \/ onRequestHistory("v1")
    \/ portOut["v1"] = <<>> /\ syncActiveTab("v1", 2)
    \/ \E k \in Viewers : handlePortMessage(k)

\* Two checks in flight: a first check of tab 1 is at the model service when a
\* second request is made, for the same field, another field or the page of
\* tab 2; the two complete in either order, in the same millisecond or not.
NextPair ==
    \/ \E t \in Tabs, f \in Fields, newText \in {LongB, PaddedLongA} :
          /\ \A u \in Tabs :
                liveTimers[u] = {} /\ reqQ[u] = <<>> /\ respQ[u] = <<>>
          /\ checkHistory = <<>>
          /\ \/ calls = <<>> /\ t = 1 /\ f = "f1" /\ newText = LongB
             \/ Len(calls) = 1 /\ (t = 1 \/ f = "f1")
          /\ handleInput(t, f, newText)
    \/ \E t \in Tabs : TimerFires(t)
    \/ \E t \in Tabs : checkGrammarResumes(t)
    \/ \E t \in Tabs : handleMessage(t)
    \/ \E t \in Tabs : onCheckGrammar(t)
    \/ \E i \in 1..MaxChecks :
          Len(checkHistory) < MaxHistory /\ modelCallSucceeds(i, FALSE)
    \/ Tick
    \/ calls = <<>> /\ onConnect("v1", 1)
    \/ calls = <<>> /\ onConnect("v2", 2)
    \/ \E k \in Viewers : onRegisterTab(k)
    \/ \E k \in Viewers : onRequestHistory(k)
    \/ \E k \in Viewers : handlePortMessage(k)

\* The model call: the checks of tab 1 end in every way the fetch can
\* settle or time out, with panel v1 bound to tab 1.
NextCall ==
    \/ liveTimers[1] = {} /\ ChecksInFlight = 0 /\ respQ[1] = <<>>
          /\ \E newText \in {LongB, PaddedLongA} : handleInput(1, "f1", newText)
    \/ TimerFires(1)
    \/ checkGrammarResumes(1)
    \/ handleMessage(1)
    \/ onCheckGrammar(1)
    \/ \E i \in 1..MaxChecks, timedOut \in BOOLEAN, r \in Responses :
          Len(checkHistory) < MaxHistory /\ modelCallEnds(i, timedOut, r, FALSE)
    \/ onConnect("v1", 1)
    \/ onRegisterTab("v1")
    \/ onRequestHistory("v1")
    \/ handlePortMessage("v1")

\* The addressed notices: the pages of both tabs are checked, one check at a
\* time, and the checks succeed or fail, while panel v1 is bound to tab 1 and
\* panel v2 to tab 2 or to no tab.
NextTarget ==
    \/ \E t \in Tabs :
          /\ \A u \in Tabs :
                liveTimers[u] = {} /\ reqQ[u] = <<>> /\ respQ[u] = <<>>
          /\ calls = <<>> /\ delivering = <<>>
          /\ Len(checkHistory) < MaxHistory
          /\ handleInput(t, "f1", LongB)
    \/ \E t \in Tabs : TimerFires(t)
    \/ \E t \in Tabs : checkGrammarResumes(t)
    \/ \E t \in Tabs : handleMessage(t)
    \/ \E t \in Tabs : onCheckGrammar(t)
    \/ \E i \in 1..MaxChecks, hasIssues \in BOOLEAN :
          modelCallSucceeds(i, hasIssues)
    \/ \E i \in 1..MaxChecks : suggestionSent(i)
    \/ \E i \in 1..MaxChecks : modelCallFails(i, StatusFailure)
    \/ onConnect("v1", 1)
    \/ \E activeTab \in {2, NoTab} : onConnect("v2", activeTab)
    \/ \E k \in Viewers : onRegisterTab(k)
    \/ \E k \in Viewers : onRequestHistory(k)
    \/ \E k \in Viewers : handlePortMessage(k)

\* the model service responds or fails, or the request timeout fires
callSettles ==
    \E i \in 1..MaxChecks, timedOut \in BOOLEAN, r \in Responses,
       resultHasIssues \in BOOLEAN :
        modelCallEnds(i, timedOut, r, resultHasIssues)

\* tabs.sendMessage(showSuggestion) settles
showSuggestionSettles == \E i \in 1..MaxChecks : suggestionSent(i)

\* The outcome of a check: the checks of tab 1, one at a time, end in every
\* way, with or without issues, while panel v1 is bound to tab 1 or closed.
NextOutcome ==
    \/ /\ liveTimers[1] = {} /\ ChecksInFlight = 0 /\ respQ[1] = <<>>
       /\ Len(checkHistory) < MaxHistory
       /\ \E newText \in {LongB, PaddedLongA} : handleInput(1, "f1", newText)
    \/ TimerFires(1)
    \/ checkGrammarResumes(1)
    \/ handleMessage(1)
    \/ onCheckGrammar(1)
    \/ callSettles
    \/ showSuggestionSettles
    \/ onConnect("v1", 1)
    \/ onDisconnect("v1")
    \/ onRegisterTab("v1")
    \/ onRequestHistory("v1")
    \/ handlePortMessage("v1")

\* The displayed list: on top of 49 earlier records, checks of tab 1 complete
\* one after the other while the panel takes snapshots and results and
\* dismisses its first or its last card.
NextDisplay ==
    \/ /\ liveTimers[1] = {} /\ ChecksInFlight = 0 /\ respQ[1] = <<>>
       /\ handleInput(1, "f1", LongB)
    \/ TimerFires(1)
    \/ checkGrammarResumes(1)
    \/ handleMessage(1)
    \/ onCheckGrammar(1)
    \/ \E i \in 1..MaxChecks, hasIssues \in BOOLEAN :
          Len(recordedNow) < MaxHistory /\ modelCallSucceeds(i, hasIssues)
    \/ \E i \in 1..MaxChecks : suggestionSent(i)
    \/ onConnect("v1", 1)
    \/ onRegisterTab("v1")
    \/ onRequestHistory("v1")
    \/ onDismissEntry("v1")
    \/ handlePortMessage("v1")
    \/ \E i \in {1, DisplayLimit} :
          /\ portOut["v1"] = <<>> /\ removing["v1"] = {}
          /\ Len(checkHistory) >= HistoryLimit - 1
          /\ dismissClicked("v1", i)
    \/ dismissTimeout("v1")

\* The parser: every reply is parsed once.
NextParse == parseReply

Spec == Init /\ [][Next]_vars

SpecGate == Init /\ [][NextGate]_vars

SpecHist == InitHist /\ [][NextHist]_vars

SpecRecord == Init /\ [][NextRecord]_vars

SpecOrder == Init /\ [][NextOrder]_vars

SpecDismiss == Init /\ [][NextDismiss]_vars

SpecNotice == Init /\ [][NextNotice]_vars

SpecPage == Init /\ [][NextPage]_vars

SpecReload == Init /\ [][NextReload]_vars

SpecFail == Init /\ [][NextFail]_vars

SpecRegistry == Init /\ [][NextRegistry]_vars

SpecHistory == Init /\ [][NextHistory]_vars

SpecSnapshot == InitSnapshot /\ [][NextSnapshot]_vars

SpecReconnect == Init /\ [][NextReconnect]_vars

SpecLate == Init /\ [][NextLate]_vars

SpecPair == Init /\ [][NextPair]_vars

SpecCall == Init /\ [][NextCall]_vars

SpecParse == InitParse /\ [][NextParse]_vars

SpecDisplay == InitHist /\ [][NextDisplay]_vars

\* every pending call settles, and the page and the panel handle the messages
\* sent to them; strong fairness for the calls, which in the model wait for
\* room in the queue of a panel that can be closed and opened in between
SpecTarget == Init /\ [][NextTarget]_vars

SpecOutcome ==
    /\ Init
    /\ [][NextOutcome]_vars
    /\ SF_vars(callSettles)
    /\ SF_vars(showSuggestionSettles)
    /\ WF_vars(handleMessage(1))
    /\ WF_vars(handlePortMessage("v1"))

(***************************************************************************)
(* Properties of the page monitor.                                         *)
(***************************************************************************)
\* the request a step of page t puts on its way, as a set of at most one
emitted(t) ==
    IF Len(reqQ'[t]) > Len(reqQ[t]) THEN {reqQ'[t][Len(reqQ'[t])]} ELSE {}

C3_NoResendAfterAccept ==
    [][\A t \in Tabs : \A r \in emitted(t) :
          r.text \notin acceptedText[t][r.elementId]]_vars

\* C3, amended: a request for field f never carries the text the page monitor
\* holds as the last-checked text of f.
C3_NoResendOfLastChecked ==
    [][\A t \in Tabs : \A r \in emitted(t) :
          ~(/\ MapHas(lastCheckedText[t], r.elementId)
            /\ lastCheckedText[t][r.elementId] = r.text)]_vars

\* C3, witness: the field's text is its last-checked text, the panel is open
\* and a timer of the field is pending.
C3_Witness ==
    /\ sidePanelOpen[1]
    /\ MapHas(lastCheckedText[1], "f1")
    /\ lastCheckedText[1]["f1"] = trim(text[1]["f1"])
    /\ liveTimers[1] # {}

\* C4: no timer that was pending when the page monitor processed a detach is
\* still pending afterwards, and no CheckRequest comes from such a timer.
C4_NoStaleTimer ==
    \A t \in Tabs :
        /\ \A tm \in liveTimers[t] : ~tm.stale
        /\ \A i \in 1..Len(reqQ[t]) : ~reqQ[t][i].stale

\* C4, witness: a detach cancelled a pending timer, the viewer attached again
\* and a CheckRequest has been emitted since.
C4_Witness ==
    /\ reattached[1] = "reattached"
    /\ reqQ[1] # <<>>

(***************************************************************************)
(* Properties of the coordinator and the viewer session.                   *)
(***************************************************************************)
\* C1: the coordinator accepts a checkGrammar request of page t, and starts a
\* model call for it, only if a registered viewer connection is bound to t
\* when the request is handled; otherwise the reply is {success: false,
\* panelOpen: false}, no model call is started, no viewer is sent anything
\* and the history is unchanged.
C1_GateOnBoundViewer ==
    [][\A t \in Tabs : Len(reqQ'[t]) < Len(reqQ[t]) =>
          LET reply == respQ'[t][Len(respQ'[t])]
              bound == \E k \in DOMAIN sidePanelPorts :
                           sidePanelPorts[k].tabId = t
          IN  /\ (reply.success \/ Len(calls') > Len(calls)) => bound
              /\ ~bound => /\ reply.success = FALSE
                            /\ reply.panelOpen = FALSE
                            /\ calls' = calls
                            /\ portIn' = portIn
                            /\ checkHistory' = checkHistory]_vars

\* C1, witness: page 1 holds the panel for open and has a refusal on its way
\* while the only viewer is bound to tab 2.
C1_Witness ==
    /\ sidePanelOpen[1]
    /\ respQ[1] # <<>>
    /\ ~Head(respQ[1]).success
    /\ "v1" \in DOMAIN sidePanelPorts
    /\ sidePanelPorts["v1"].tabId = 2

\* C5: the history never holds more than 50 entries, and a record inserted
\* into a history of 50 evicts the last entry alone: the other 49 follow the
\* new record in their old order.
C5_HistoryCut ==
    /\ [](Len(checkHistory) <= 50)
    /\ [][(Len(calls') < Len(calls) /\ Len(checkHistory) = 50) =>
             /\ Len(checkHistory') = 50
             /\ checkHistory'[1].timestamp = now
             /\ \A i \in 1..49 : checkHistory'[i + 1] = checkHistory[i]]_vars

\* C5, witness: the history holds 50 entries, the newest recorded now, and
\* the record of time 1 is gone: the oldest left is the one of time 2.
C5_Witness ==
    /\ Len(checkHistory) = 50
    /\ checkHistory[1].timestamp = now
    /\ checkHistory[50].timestamp = 2

\* C6: the timestamps of the history do not increase from the first entry to
\* the last.
C6_NewestFirst ==
    \A i, j \in 1..Len(checkHistory) :
        i < j => checkHistory[i].timestamp >= checkHistory[j].timestamp

\* C6, witness: the history holds two records of different times while the
\* viewer has a dismissed card waiting for its removal.
C6_Witness ==
    /\ Len(checkHistory) = 2
    /\ checkHistory[1].timestamp > checkHistory[2].timestamp
    /\ removing["v1"] # {}

\* a record with two boolean flags of which one is true, the hasIssues flag
\* being the parser's
flagsAgree(e) ==
    /\ e.hasIssues \in BOOLEAN
    /\ e.noIssues \in BOOLEAN
    /\ e.hasIssues # e.noIssues
    /\ e.hasIssues = e.resultHasIssues

\* C7: every record in the history, on its way to a viewer or waiting for
\* its delivery has boolean hasIssues and noIssues, exactly one of them true,
\* and its hasIssues is the value the parser returned for the check.
C7_ComplementaryFlags ==
    /\ \A i \in 1..Len(checkHistory) : flagsAgree(checkHistory[i])
    /\ \A i \in 1..Len(delivering) : flagsAgree(delivering[i].entry)
    /\ \A k \in Viewers : \A i \in 1..Len(portIn[k]) :
          LET m == portIn[k][i]
          IN  /\ m.action = "displaySuggestion" => flagsAgree(m.data)
              /\ m.action = "historyUpdate" =>
                    \A j \in 1..Len(m.history) : flagsAgree(m.history[j])

\* C7, witness: the history holds a record with issues and one without, and
\* a record with issues is on its way to the viewer.
C7_Witness ==
    /\ \E i, j \in 1..Len(checkHistory) :
          checkHistory[i].hasIssues /\ checkHistory[j].noIssues
    /\ \E i \in 1..Len(portIn["v1"]) :
          /\ portIn["v1"][i].action = "displaySuggestion"
          /\ portIn["v1"][i].data.hasIssues

\* the dismissEntry message the coordinator takes from viewer k in this step,
\* as a set of at most one
dismissed(k) ==
    IF /\ Len(portOut'[k]) < Len(portOut[k])
       /\ Head(portOut[k]).action = "dismissEntry"
    THEN {Head(portOut[k])} ELSE {}

\* entry e has the timestamp of message m, and its field id when m has one
keyMatches(m, e) ==
    /\ m.timestamp # NoTimestamp
    /\ e.timestamp = m.timestamp
    /\ (m.elementId # NoElement => e.elementId = m.elementId)

\* C8: a dismissEntry that matches an entry removes exactly one entry, one
\* with its timestamp (and its field id when given), and leaves the others
\* in their order.
C8_DismissRemovesOne ==
    [][\A k \in Viewers : \A m \in dismissed(k) :
          (\E i \in 1..Len(checkHistory) : keyMatches(m, checkHistory[i])) =>
              \E i \in 1..Len(checkHistory) :
                  /\ keyMatches(m, checkHistory[i])
                  /\ checkHistory' = RemoveAt(checkHistory, i)]_vars

\* C9: a dismissEntry that removed an entry puts a removeSuggestion notice
\* with its key on the port of every connected viewer, and a viewer that has
\* processed such a notice shows no entry with that key.
C9_NoticeToEveryViewer ==
    [][/\ \A k \in Viewers : \A m \in dismissed(k) :
             Len(checkHistory') < Len(checkHistory) =>
                 \A v \in DOMAIN sidePanelPorts :
                     /\ Len(portIn'[v]) = Len(portIn[v]) + 1
                     /\ portIn'[v][Len(portIn'[v])] =
                            [action |-> "removeSuggestion",
                             data |-> [timestamp |-> m.timestamp,
                                       elementId |-> m.elementId]]
       /\ \A v \in Viewers :
             (/\ Len(portIn'[v]) < Len(portIn[v])
              /\ Head(portIn[v]).action = "removeSuggestion") =>
                 \A i \in 1..Len(suggestions'[v]) :
                     ~sameKey(suggestions'[v][i], Head(portIn[v]).data)]_vars

\* C9, witness: the viewer bound to tab 2 shows a card and the notice of its
\* removal, caused by the viewer bound to tab 1, is the next message it
\* processes.
C9_Witness ==
    /\ "v2" \in DOMAIN sidePanelPorts
    /\ sidePanelPorts["v2"].tabId = 2
    /\ sidePanelPorts["v1"].tabId = 1
    /\ portIn["v2"] # <<>>
    /\ Head(portIn["v2"]).action = "removeSuggestion"
    /\ \E i \in 1..Len(suggestions["v2"]) :
          sameKey(suggestions["v2"][i], Head(portIn["v2"]).data)

\* C10: a dismissEntry without a timestamp, or whose timestamp and field id
\* match no entry, leaves the history as it is and sends no viewer anything.
C10_DismissNoMatchNoOp ==
    [][\A k \in Viewers : \A m \in dismissed(k) :
          (~\E i \in 1..Len(checkHistory) : keyMatches(m, checkHistory[i])) =>
              /\ checkHistory' = checkHistory
              /\ portIn' = portIn]_vars

\* C10, witness: the history holds an entry of field f1 recorded at time 1
\* and the next message of the viewer is a dismissEntry for time 1 and
\* field f2.
C10_Witness ==
    /\ \E i \in 1..Len(checkHistory) : checkHistory[i].timestamp = 1
    /\ portOut["v1"] # <<>>
    /\ Head(portOut["v1"]).action = "dismissEntry"
    /\ Head(portOut["v1"]).timestamp = 1
    /\ Head(portOut["v1"]).elementId = "f2"

(***************************************************************************)
(* Properties of the page monitor, the registry and the viewer's list.     *)
(***************************************************************************)
\* C11: while the viewer-attached flag of a page is false, no step starts a
\* timer of that page or sends a checkGrammar message from it.
C11_QuietWhileDetached ==
    [][\A t \in Tabs : ~sidePanelOpen[t] =>
          /\ liveTimers'[t] \subseteq liveTimers[t]
          /\ Len(reqQ'[t]) <= Len(reqQ[t])]_vars

\* C11, witness: no viewer was ever attached to page 1 and its field was
\* given a text of 26 characters.
C11_Witness ==
    /\ ~sidePanelOpen[1]
    /\ reattached[1] = "never"
    /\ text[1]["f1"] = LongB

\* C12: every page has at most one pending timer per field, and the timer
\* map holds exactly the pending timers, each under its field.
C12_OneTimerPerField ==
    \A t \in Tabs :
        /\ \A f \in Fields :
              Cardinality({tm \in liveTimers[t] : tm.el = f}) <= 1
        /\ \A tm \in liveTimers[t] :
              MapHas(typingTimers[t], tm.el) /\ typingTimers[t][tm.el] = tm.id
        /\ \A f \in DOMAIN typingTimers[t] :
              \E tm \in liveTimers[t] : tm.el = f /\ tm.id = typingTimers[t][f]

\* the reply of the coordinator that page t processes in this step, as a set
\* of at most one
replied(t) ==
    IF /\ Len(respQ'[t]) < Len(respQ[t])
       /\ Head(respQ[t]).kind = "reply"
    THEN {Head(respQ[t])} ELSE {}

\* C13: processing a reply that reports acceptance of (f, t) sets the
\* last-checked text of f to t, processing a rejection leaves the
\* last-checked map and the timer map as they are, and no other step gives a
\* field a new last-checked text.
C13_LastCheckedOnAcceptance ==
    [][\A t \in Tabs :
          /\ \A r \in replied(t) :
                /\ typingTimers'[t] = typingTimers[t]
                /\ IF r.success
                   THEN /\ DOMAIN lastCheckedText'[t] =
                              DOMAIN lastCheckedText[t] \cup {r.elementId}
                        /\ lastCheckedText'[t][r.elementId] = r.text
                        /\ \A f \in DOMAIN lastCheckedText[t] \ {r.elementId} :
                              lastCheckedText'[t][f] = lastCheckedText[t][f]
                   ELSE lastCheckedText'[t] = lastCheckedText[t]
          /\ \A f \in DOMAIN lastCheckedText'[t] :
                (\/ f \notin DOMAIN lastCheckedText[t]
                 \/ lastCheckedText[t][f] # lastCheckedText'[t][f]) =>
                    \E r \in replied(t) :
                        /\ r.success
                        /\ r.elementId = f
                        /\ r.text = lastCheckedText'[t][f]]_vars

\* C13, witness: page 1 holds a last-checked text for f1 and the next reply
\* it processes is a rejection.
C13_Witness ==
    /\ MapHas(lastCheckedText[1], "f1")
    /\ respQ[1] # <<>>
    /\ Head(respQ[1]).kind = "reply"
    /\ ~Head(respQ[1]).success

\* C14: the step that completes a model call with a result prepends one
\* record to the history, sends showSuggestion with the record's field id to
\* the record's page, and sends displaySuggestion with the record to every
\* viewer bound to that page, at once or after the page was notified.
C14_RecordPageAndViewers ==
    [][Len(calls') < Len(calls) =>
          /\ Len(checkHistory') = Len(checkHistory) + 1
          /\ Tail(checkHistory') = checkHistory
          /\ LET e == checkHistory'[1]
             IN  /\ tabQ'[e.tabId] =
                        Append(tabQ[e.tabId],
                               [action |-> "showSuggestion",
                                elementId |-> e.elementId, isOpen |-> FALSE])
                 /\ \/ \E i \in 1..Len(delivering') : delivering'[i].entry = e
                    \/ \A k \in DOMAIN sidePanelPorts :
                          sidePanelPorts[k].tabId = e.tabId =>
                              portIn'[k] =
                                  Append(portIn[k],
                                         [action |-> "displaySuggestion",
                                          data |-> e])]_vars

\* C15: the step that ends a model call with a failure appends one
\* displayError carrying the failure's message to the port of every viewer
\* bound to the page of the check, leaves the history as it is and sends no
\* page a message.
C15_FailureToViewersOnly ==
    [][Len(calls') < Len(calls) =>
          /\ checkHistory' = checkHistory
          /\ tabQ' = tabQ
          /\ respQ' = respQ
          /\ \E i \in 1..Len(calls) :
                /\ calls' = RemoveAt(calls, i)
                /\ \E error \in
                        {"Request timeout - AI service took too long to respond",
                         "Cannot connect to AI service. Make sure Ollama is running (ollama serve)",
                         "AI service returned status 500",
                         "Unexpected token < in JSON at position 0",
                         "Invalid response from Ollama"} :
                      \A k \in DOMAIN sidePanelPorts :
                          sidePanelPorts[k].tabId = calls[i].tabId =>
                              portIn'[k] =
                                  Append(portIn[k],
                                         [action |-> "displayError",
                                          error |-> error])]_vars

\* C15, witness: viewer v1, bound to tab 1, has been sent the message of a
\* request timeout while viewer v2 is bound to tab 2, and the history is
\* empty.
C15_Witness ==
    /\ "v1" \in DOMAIN sidePanelPorts
    /\ "v2" \in DOMAIN sidePanelPorts
    /\ sidePanelPorts["v1"].tabId = 1
    /\ sidePanelPorts["v2"].tabId = 2
    /\ checkHistory = <<>>
    /\ \E i \in 1..Len(portIn["v1"]) :
          /\ portIn["v1"][i].action = "displayError"
          /\ portIn["v1"][i].error =
                 "Request timeout - AI service took too long to respond"

\* C16: the step that connects a viewer adds one registry entry, for that
\* viewer and bound to no tab, leaves the other entries and every page's
\* message queue as they are, and puts one historyUpdate holding the whole
\* history on the new port.
C16_ConnectUnboundWithHistory ==
    [][\A k \in Viewers :
          (k \notin DOMAIN sidePanelPorts /\ k \in DOMAIN sidePanelPorts') =>
              /\ DOMAIN sidePanelPorts' = DOMAIN sidePanelPorts \cup {k}
              /\ sidePanelPorts'[k].tabId = NoTab
              /\ \A j \in DOMAIN sidePanelPorts :
                    sidePanelPorts'[j] = sidePanelPorts[j]
              /\ tabQ' = tabQ
              /\ portIn'[k] = <<[action |-> "historyUpdate",
                                 history |-> checkHistory]>>
              /\ \A j \in Viewers \ {k} : portIn'[j] = portIn[j]]_vars

\* C16, witness: viewer v2 has connected while the history held an entry and
\* viewer v1 was bound to tab 1; v2 is not bound yet and its port holds the
\* first historyUpdate only.
C16_Witness ==
    /\ "v1" \in DOMAIN sidePanelPorts
    /\ sidePanelPorts["v1"].tabId = 1
    /\ "v2" \in DOMAIN sidePanelPorts
    /\ sidePanelPorts["v2"].tabId = NoTab
    /\ checkHistory # <<>>
    /\ portIn["v2"] = <<[action |-> "historyUpdate",
                         history |-> checkHistory]>>

\* the registry holds a viewer bound to tab t
boundTo(registry, t) ==
    \E k \in DOMAIN registry : registry[k].tabId = t

\* C17: once the notices sent to a page have been delivered, the page's
\* sidePanelOpen is true whenever the registry holds a viewer bound to it.
C17_AttachedWhileBound ==
    \A t \in Tabs :
        (boundTo(sidePanelPorts, t) /\ tabQ[t] = <<>> /\ contextValid[t])
            => sidePanelOpen[t]

\* C18: the step that disconnects viewer k removes its registry entry and
\* sends the page it was bound to the notice sidePanelStatus false exactly
\* when no other viewer stays bound to that page; no other page is sent
\* anything.
C18_DetachNoticeOnlyForLast ==
    [][\A k \in DOMAIN sidePanelPorts :
          k \notin DOMAIN sidePanelPorts' =>
              LET P == sidePanelPorts[k].tabId
                  notice == [action |-> "sidePanelStatus",
                             elementId |-> NoElement, isOpen |-> FALSE]
              IN  /\ DOMAIN sidePanelPorts' = DOMAIN sidePanelPorts \ {k}
                  /\ IF P # NoTab /\ ~boundTo(sidePanelPorts', P)
                     THEN tabQ' = [tabQ EXCEPT ![P] = Append(@, notice)]
                     ELSE tabQ' = tabQ]_vars

\* C19: the step that handles a requestHistory message appends to the port
\* of the requesting viewer, and to no other port, one historyUpdate whose
\* history is the entries of the named tab in the order of the history, or
\* the whole history when the message names no tab.
C19_HistoryOfTheNamedTab ==
    [][\A k \in DOMAIN sidePanelPorts :
          (/\ portOut[k] # <<>>
           /\ Head(portOut[k]).action = "requestHistory"
           /\ portOut'[k] = Tail(portOut[k])) =>
              LET id == Head(portOut[k]).tabId
                  kept == {i \in 1..Len(checkHistory) :
                              id = NoTab \/ checkHistory[i].tabId = id}
                  reply == portIn'[k][Len(portIn'[k])]
              IN  /\ Len(portIn'[k]) = Len(portIn[k]) + 1
                  /\ \A i \in 1..Len(portIn[k]) : portIn'[k][i] = portIn[k][i]
                  /\ \A j \in Viewers \ {k} : portIn'[j] = portIn[j]
                  /\ reply.action = "historyUpdate"
                  /\ Len(reply.history) = Cardinality(kept)
                  /\ \A i \in 1..Len(reply.history) :
                        \E n \in kept :
                            /\ reply.history[i] = checkHistory[n]
                            /\ Cardinality({j \in kept : j < n}) = i - 1
                  /\ checkHistory' = checkHistory]_vars

\* C19, witness: the history holds a check of tab 2 above a check of tab 1
\* and the last message on the viewer's port is a historyUpdate holding the
\* check of tab 1 alone.
C19_Witness ==
    /\ Len(checkHistory) = 2
    /\ checkHistory[1].tabId = 2
    /\ checkHistory[2].tabId = 1
    /\ portIn["v1"] # <<>>
    /\ portIn["v1"][Len(portIn["v1"])] =
           [action |-> "historyUpdate", history |-> <<checkHistory[2]>>]

\* C20: the step in which a viewer handles a historyUpdate sets its list to
\* the first 10 entries of the snapshot when the snapshot is not empty, and
\* leaves its list as it is, empty or not, when the snapshot is empty.
C20_SnapshotReplacesUnlessEmpty ==
    [][\A k \in DOMAIN sidePanelPorts \cap DOMAIN sidePanelPorts' :
          (/\ portIn[k] # <<>>
           /\ Head(portIn[k]).action = "historyUpdate"
           /\ portIn'[k] = Tail(portIn[k])) =>
              LET snapshot == Head(portIn[k]).history
              IN  IF snapshot # <<>>
                  THEN /\ Len(suggestions'[k]) =
                             IF Len(snapshot) < 10 THEN Len(snapshot) ELSE 10
                       /\ \A i \in 1..Len(suggestions'[k]) :
                             suggestions'[k][i] = snapshot[i]
                  ELSE suggestions'[k] = suggestions[k]]_vars

\* C20, witness: the panel was opened on tab 2 over a history of more than
\* 10 records of tab 1; it has handled the whole history sent on connection
\* and the empty history of tab 2 sent on its request, and lists the 10
\* newest records.
C20_Witness ==
    /\ "v1" \in DOMAIN sidePanelPorts
    /\ sidePanelPorts["v1"].tabId = 2
    /\ portIn["v1"] = <<>>
    /\ portOut["v1"] = <<>>
    /\ Len(checkHistory) > 10
    /\ Len(suggestions["v1"]) = 10
    /\ \A i \in 1..10 : suggestions["v1"][i] = checkHistory[i]

(***************************************************************************)
(* Properties of the viewer's upsert, the completion of checks and the     *)
(* model call.                                                             *)
(***************************************************************************)
\* C21: the step in which a viewer handles displaySuggestion for a record r
\* leaves r first in its list, no other entry of the list with r's timestamp
\* and elementId, and the other entries in the order they had.
C21_UpsertFrontUniqueKey ==
    [][\A k \in DOMAIN sidePanelPorts \cap DOMAIN sidePanelPorts' :
          (/\ portIn[k] # <<>>
           /\ Head(portIn[k]).action = "displaySuggestion"
           /\ portIn'[k] = Tail(portIn[k])) =>
              LET r == Head(portIn[k]).data
                  old == suggestions[k]
                  new == suggestions'[k]
                  others == {i \in 1..Len(old) :
                                ~(old[i].timestamp = r.timestamp
                                  /\ old[i].elementId = r.elementId)}
              IN  /\ new # <<>>
                  /\ new[1] = r
                  /\ \A i \in 2..Len(new) :
                        ~(new[i].timestamp = r.timestamp
                          /\ new[i].elementId = r.elementId)
                  /\ \A i \in 2..Len(new) :
                        \E n \in others :
                            /\ new[i] = old[n]
                            /\ Cardinality({j \in others : j < n}) = i - 2]_vars

\* C22: a panel whose connection is lost has its reconnection timer
\* pending, so that a further attempt follows every loss and every attempt
\* that yields no connection.
C22_RetryPending ==
    \A k \in Viewers : (panel[k] /\ ~port[k]) => reconnectTimer[k]

\* C23: the step in which a connected viewer reacts to a change of the
\* active tab puts registerTab for the new tab and then requestHistory for the
\* new tab on its port, whatever its list holds.
C23_SyncRegistersAndRequests ==
    [][\A k \in DOMAIN sidePanelPorts :
          (/\ Len(portOut'[k]) > Len(portOut[k])
           /\ portOut'[k][Len(portOut[k]) + 1].action = "registerTab") =>
              LET t == portOut'[k][Len(portOut[k]) + 1].tabId
              IN  portOut'[k] =
                      portOut[k] \o
                      <<[action |-> "registerTab", tabId |-> t,
                         timestamp |-> NoTimestamp, elementId |-> NoElement],
                        [action |-> "requestHistory", tabId |-> t,
                         timestamp |-> NoTimestamp,
                         elementId |-> NoElement]>>]_vars

\* C24: the step in which a timer's callback reaches the send with the
\* extension context invalidated leaves the page no live timer and an empty
\* lastCheckedText.
C24_InvalidatedStopsAll ==
    [][\A t \in Tabs :
          (/\ ~contextValid[t]
           /\ text' = text
           /\ tabQ' = tabQ
           /\ liveTimers'[t] \subseteq liveTimers[t]
           /\ \E tm \in liveTimers[t] :
                 tm \notin liveTimers'[t] /\ ~checkGrammarSkips(t, tm.el)) =>
              /\ liveTimers'[t] = {}
              /\ lastCheckedText'[t] = EmptyMap]_vars

\* C25: the step that completes a check of tab T with a result while no
\* viewer is bound to T puts the check's record at the front of the history
\* and no message on any viewer's port, and the record it hands on to the
\* later broadcast is marked as not to be sent.
C25_NoViewerNoDisplay ==
    [][\A i \in 1..Len(calls) :
          (/\ calls' = RemoveAt(calls, i)
           /\ \A k \in DOMAIN sidePanelPorts :
                 sidePanelPorts[k].tabId # calls[i].tabId) =>
              /\ Len(checkHistory') = Len(checkHistory) + 1
              /\ checkHistory'[1].tabId = calls[i].tabId
              /\ checkHistory'[1].elementId = calls[i].elementId
              /\ checkHistory'[1].originalText = calls[i].normalizedText
              /\ portIn' = portIn
              /\ \/ delivering' = delivering
                 \/ /\ Len(delivering') = Len(delivering) + 1
                    /\ ~delivering'[Len(delivering')].panelConnected]_vars

\* C25, witness: a check of tab 1 is recorded, panel v1 is closed, and panel
\* v2, open and unbound since before the record was made, has been sent
\* nothing about it.
C25_Witness ==
    /\ checkHistory # <<>>
    /\ calls = <<>>
    /\ delivering = <<>>
    /\ "v1" \notin DOMAIN sidePanelPorts
    /\ "v2" \in DOMAIN sidePanelPorts
    /\ sidePanelPorts["v2"].tabId = NoTab
    /\ portIn["v2"] = <<>>
    /\ suggestions["v2"] = <<>>

\* C26: the step that completes one check with a result takes that call
\* alone out of the calls in flight and puts its record in front of the
\* history, whose earlier records stay as they are, whatever other call is
\* in flight or was completed before.
C26_IndependentCompletion ==
    [][\A i \in 1..Len(calls) :
          calls' = RemoveAt(calls, i) =>
              /\ Len(checkHistory') = Len(checkHistory) + 1
              /\ checkHistory'[1].tabId = calls[i].tabId
              /\ checkHistory'[1].elementId = calls[i].elementId
              /\ checkHistory'[1].originalText = calls[i].normalizedText
              /\ \A n \in 1..Len(checkHistory) :
                    checkHistory'[n + 1] = checkHistory[n]]_vars

\* C26, witness: the two checks have completed in the order opposite to
\* their acceptance: the record of the first check of tab 1, field f1, is in
\* front of the record of the check requested while it was in flight.
C26_Witness ==
    /\ calls = <<>>
    /\ Len(checkHistory) = 2
    /\ checkHistory[1].tabId = 1
    /\ checkHistory[1].elementId = "f1"
    /\ checkHistory[1].originalText = LongB
    /\ checkHistory[2].tabId = 1
    /\ checkHistory[2].elementId = "f1"
    /\ checkHistory[2].originalText = trim(PaddedLongA)

\* C27: while a check is between the insertion of its record and the
\* sending of its displaySuggestion, the only step of the coordinator is that
\* sending: no request and no port message is handled, no panel is connected
\* or disconnected and no other check is completed.
C27_CompletionAtomic ==
    [][delivering # <<>> =>
          \/ Len(delivering') < Len(delivering)
          \/ /\ delivering' = delivering
             /\ checkHistory' = checkHistory
             /\ sidePanelPorts' = sidePanelPorts
             /\ calls' = calls
             /\ \A k \in Viewers : Len(portOut'[k]) >= Len(portOut[k])
             /\ \A t \in Tabs : Len(reqQ'[t]) >= Len(reqQ[t])]_vars

\* C28: the step that ends a model call either records the parsed result
\* and sends no displayError, or leaves the history as it is and sends the
\* viewers bound to the page one displayError whose message is that of a
\* timeout, of an unreachable service, of a status that is not ok or of a
\* missing message.content.
C28_OneOutcomeOfFourKinds ==
    [][\A i \in 1..Len(calls) :
          (/\ calls' = RemoveAt(calls, i)
           /\ \E k \in DOMAIN sidePanelPorts :
                 sidePanelPorts[k].tabId = calls[i].tabId) =>
              \/ /\ Len(checkHistory') = Len(checkHistory) + 1
                 /\ \A k \in DOMAIN sidePanelPorts :
                       sidePanelPorts[k].tabId = calls[i].tabId =>
                           /\ Len(portIn'[k]) = Len(portIn[k]) + 1
                           /\ portIn'[k][Len(portIn'[k])].action =
                                  "displaySuggestion"
              \/ /\ checkHistory' = checkHistory
                 /\ \E error \in
                        {"Request timeout - AI service took too long to respond",
                         "Cannot connect to AI service. Make sure Ollama is running (ollama serve)",
                         "AI service returned status 500",
                         "Invalid response from Ollama"} :
                       \A k \in DOMAIN sidePanelPorts :
                           sidePanelPorts[k].tabId = calls[i].tabId =>
                               portIn'[k] =
                                   Append(portIn[k],
                                          [action |-> "displayError",
                                           error |-> error])]_vars

\* the Revised line of a reply laid out as the prompt asks: what stands
\* between the first Revised or Corrected label and the end of its line
revisedLine(s) ==
    LET at == {i \in 1..Len(s) : s[i] \in {"Revised:", "Corrected:"}}
        ends == {j \in (Least(at) + 1)..Len(s) : s[j] = "\n"}
    IN  IF at = {} THEN <<>>
        ELSE trim(SubSeq(s, Least(at) + 1,
                         IF ends = {} THEN Len(s) ELSE Least(ends) - 1))

hasRevisedLabel(s) == \E i \in 1..Len(s) : s[i] \in {"Revised:", "Corrected:"}

\* C29: the parser's hasIssues is true exactly when the issues list is not
\* empty or the corrected text differs from the original and the reply
\* nowhere says "no correction"; and a reply whose Revised line holds a
\* sentence other than the original yields that sentence as the corrected
\* text, with hasIssues true.
C29_HasIssuesAndRevisedSentence ==
    \A n \in 1..Len(result) :
        /\ result[n].hasIssues <=>
               \/ Len(result[n].issues) > 0
               \/ /\ result[n].correctedText # original
                  /\ ~includesNoCorrection(modelReply)
        /\ revisedLine(modelReply) = <<Sentence>> =>
               /\ result[n].correctedText = <<Sentence>>
               /\ result[n].hasIssues

\* C30: the corrected text is the original text when the reply has no
\* Revised or Corrected field, when that field is empty and when it says "no
\* correction"; and a reply with the line "Revised: No correction is needed."
\* yields hasIssues false and the original as the corrected text.
C30_FallsBackToOriginal ==
    \A n \in 1..Len(result) :
        /\ (\/ ~hasRevisedLabel(modelReply)
            \/ revisedLine(modelReply) = <<>>
            \/ includesNoCorrection(revisedLine(modelReply))) =>
               result[n].correctedText = original
        /\ revisedLine(modelReply) = <<NoCorrection>> =>
               /\ ~result[n].hasIssues
               /\ result[n].correctedText = original

\* the reply has none of the headings the parser looks for
noHeading(s) ==
    \A i \in 1..Len(s) :
        s[i] \notin {"Revised:", "Corrected:", "Alternative:", "Issues Found:",
                     "Summary:"}

C32_DetachedMapsEmpty ==
    \A t \in Tabs :
        ~sidePanelOpen[t] =>
            /\ typingTimers[t] = EmptyMap
            /\ lastCheckedText[t] = EmptyMap

\* C33: a page monitor with no notice on its way has its viewer-attached flag
\* true only while a registry entry is bound to its page; a viewer that
\* rebinds to another page does not leave the flag of the page it left.
C33_FlagOnlyWhileBound ==
    \A t \in Tabs :
        (sidePanelOpen[t] /\ tabQ[t] = <<>>) =>
            \E k \in DOMAIN sidePanelPorts : sidePanelPorts[k].tabId = t

\* C34: when the model call of an accepted check fails, the page monitor does
\* not hold the text of that check as the last-checked text of its field.
C34_FailedTextNotLastChecked ==
    [][\A i \in 1..Len(calls) :
          (calls' = RemoveAt(calls, i) /\ checkHistory' = checkHistory) =>
              ~(/\ MapHas(lastCheckedText'[calls[i].tabId], calls[i].elementId)
                /\ lastCheckedText'[calls[i].tabId][calls[i].elementId] =
                       calls[i].text)]_vars

\* C35: with one viewer, which stays connected, every accepted check has sent
\* it the working status; the step that ends the model call of a check sends
\* that viewer a displaySuggestion or a displayError, whatever page the
\* viewer is bound to by then.
C35_WorkingIsFollowed ==
    [][\A i \in 1..Len(calls) :
          (calls' = RemoveAt(calls, i) /\ "v1" \in DOMAIN sidePanelPorts) =>
              /\ Len(portIn'["v1"]) = Len(portIn["v1"]) + 1
              /\ portIn'["v1"][Len(portIn'["v1"])].action
                     \in {"displaySuggestion", "displayError"}]_vars

\* one step of C36: a call is started only by an accepted request, one call
\* for one request; the history and the error notices change only when a call
\* ends; a call that ends adds one record and shows no error, or leaves the
\* history alone and shows the error to the viewers bound to its page.
OneOutcome ==
    /\ calls' # calls /\ Len(calls') >= Len(calls) =>
           /\ Len(calls') = Len(calls) + 1
           /\ \E t \in Tabs :
                 /\ Len(respQ'[t]) = Len(respQ[t]) + 1
                 /\ respQ'[t][Len(respQ'[t])].success
    /\ \A t \in Tabs :
           (/\ Len(respQ'[t]) = Len(respQ[t]) + 1
            /\ respQ'[t][Len(respQ'[t])].success) =>
               Len(calls') = Len(calls) + 1
    /\ (\/ checkHistory' # checkHistory
        \/ \E k \in Viewers :
              /\ Len(portIn'[k]) = Len(portIn[k]) + 1
              /\ portIn'[k][Len(portIn'[k])].action = "displayError") =>
           \E i \in 1..Len(calls) : calls' = RemoveAt(calls, i)
    /\ \A i \in 1..Len(calls) :
           calls' = RemoveAt(calls, i) =>
               \/ /\ Len(checkHistory') = Len(checkHistory) + 1
                  /\ SubSeq(checkHistory', 2, Len(checkHistory')) = checkHistory
                  /\ checkHistory'[1].tabId = calls[i].tabId
                  /\ checkHistory'[1].elementId = calls[i].elementId
                  /\ \A k \in Viewers :
                        portIn'[k] # portIn[k] =>
                            portIn'[k][Len(portIn'[k])].action # "displayError"
               \/ /\ checkHistory' = checkHistory
                  /\ delivering' = delivering
                  /\ \A k \in DOMAIN sidePanelPorts :
                        sidePanelPorts[k].tabId = calls[i].tabId =>
                            /\ Len(portIn'[k]) = Len(portIn[k]) + 1
                            /\ portIn'[k][Len(portIn'[k])].action =
                                   "displayError"

\* C36: every accepted check makes one model call and ends, once the call
\* settles, in one outcome: one new record in the history, or the error shown
\* with the history unchanged.
C36_AcceptedCompletesOnce ==
    /\ [][OneOutcome]_vars
    /\ (calls # <<>> \/ delivering # <<>>) ~> (calls = <<>> /\ delivering = <<>>)

\* a check has failed with no record made
C36_Witness ==
    /\ calls = <<>>
    /\ checkHistory = <<>>
    /\ \E i \in 1..Len(portIn["v1"]) : portIn["v1"][i].action = "displayError"

\* C37: the list of a viewer never holds more than 10 entries.
C37_ListBounded ==
    \A k \in Viewers : Len(suggestions[k]) <= 10

\* the list holds 10 entries, the first of them the record of a check that
\* completed on top of the 49 earlier ones
C37_Witness ==
    /\ Len(suggestions["v1"]) = 10
    /\ suggestions["v1"][1].timestamp >= HistoryLimit

\* C38: a connected viewer that is bound to a page, whose messages have been
\* handled by the coordinator and which has handled the replies, lists only
\* entries of that page.
C38_ListOfTheBoundPage ==
    \A k \in DOMAIN sidePanelPorts :
        (/\ sidePanelPorts[k].tabId # NoTab
         /\ portOut[k] = <<>>
         /\ portIn[k] = <<>>) =>
            \A i \in 1..Len(suggestions[k]) :
                suggestions[k][i].tabId = sidePanelPorts[k].tabId

\* C39: a step that sends a viewer the working status, the result or the
\* error of a check sends it to a connected viewer that is bound to the page
\* of the check or to no page.
C39_NoticesStayWithThePage ==
    [][\A k \in Viewers :
          (/\ Len(portIn'[k]) = Len(portIn[k]) + 1
           /\ portIn'[k][Len(portIn'[k])].action
                  \in {"statusUpdate", "displaySuggestion", "displayError"}) =>
              LET message == portIn'[k][Len(portIn'[k])]
              IN  /\ k \in DOMAIN sidePanelPorts
                  /\ \/ sidePanelPorts[k].tabId = NoTab
                     \/ /\ message.action = "displaySuggestion"
                        /\ sidePanelPorts[k].tabId = message.data.tabId
                     \/ /\ message.action = "statusUpdate"
                        /\ Len(calls') = Len(calls) + 1
                        /\ sidePanelPorts[k].tabId = calls'[Len(calls')].tabId
                     \/ /\ message.action = "displayError"
                        /\ \E i \in 1..Len(calls) :
                              /\ calls' = RemoveAt(calls, i)
                              /\ sidePanelPorts[k].tabId = calls[i].tabId]_vars

\* viewer v1, bound to tab 1, has been sent the error of a check of tab 1 and
\* viewer v2, bound to tab 2, nothing
C39_Witness ==
    /\ "v1" \in DOMAIN sidePanelPorts
    /\ "v2" \in DOMAIN sidePanelPorts
    /\ sidePanelPorts["v1"].tabId = 1
    /\ sidePanelPorts["v2"].tabId = 2
    /\ portIn["v2"] = <<>>
    /\ portIn["v1"] # <<>>
    /\ portIn["v1"][Len(portIn["v1"])].action = "displayError"

====
